---- MODULE Spec2Model ----
(***************************************************************************)
(* Model of the enrichment pipeline of uma-parent-viewer (enrich_data.py): *)
(* the reference tables, the ID decoders and name resolvers, the condition *)
(* parser, the effect formatter and enrich_character.                      *)
(*                                                                         *)
(* Representation.  A Python str is a Text: a sequence of tokens, each a   *)
(* TLA+ string.  A token is one character ("=", "7", " ") or a word that   *)
(* holds none of the characters the parser looks at (letters and "_"       *)
(* only), so splitting at operators, "&" and blanks is token-exact.        *)
(* A name read from a table is a one-token Text, "" is <<>>, and Python's  *)
(* None is the Text None below, which no table holds.  A dict is a         *)
(* function; a missing key is a key outside its DOMAIN.  Table keys are    *)
(* decimal strings, i.e. Str(n).                                           *)
(***************************************************************************)
EXTENDS Integers, Sequences, FiniteSets, TLC

VARIABLES
    data,      \* the reference tables, as load_all_data returned them
    char,      \* the character record being enriched (mutated in place)
    before,    \* char as it was before the last enrich_character call
    usedData,  \* the tables each enrich_character call used, in call order
    runs,      \* number of enrich_character calls made on char
    exc,       \* the exception the last call raised, or "" for none
    fn,        \* the resolver called last ("" before any call)
    arg,       \* its argument
    ret,       \* its result
    files,       \* the files of an enrich_data run: input, data/ tables, output path
    characters,  \* enrich_data: the records loaded from the input file
    pc,          \* enrich_data: the step it is at ("" outside a run)
    output,      \* enrich_data: what was written to the output path
    exit_code    \* enrich_data: the exit status of the process, once pc = "exit"

\* the state of an enrich_data run
batch == <<files, characters, pc, output, exit_code>>

vars == <<data, char, before, usedData, runs, exc, fn, arg, ret, batch>>

\* no enrich_data run: the functions are called on their own
NoBatch ==
    /\ files = <<>> /\ characters = <<>> /\ pc = ""
    /\ output = <<>> /\ exit_code = 0

-----------------------------------------------------------------------------
(* Python values *)

None == <<"<None>">>

\* bool(x) for an optional str: None and "" are falsy
Truthy(t) == t # None /\ t # <<>>

HasKey(d, k) == k \in DOMAIN d

\* d.get(k, default)
DictGet(d, k, default) == IF k \in DOMAIN d THEN d[k] ELSE default

\* d[k] = v
DictSet(d, k, v) == [x \in DOMAIN d \cup {k} |-> IF x = k THEN v ELSE d[x]]

\* d.update(s)
DictUpdate(d, s) ==
    [x \in DOMAIN d \cup DOMAIN s |-> IF x \in DOMAIN s THEN s[x] ELSE d[x]]

EmptyDict == <<>>

DigitChar == <<"0", "1", "2", "3", "4", "5", "6", "7", "8", "9">>

RECURSIVE StrNat(_)
StrNat(n) == IF n < 10 THEN <<DigitChar[n + 1]>>
             ELSE StrNat(n \div 10) \o <<DigitChar[(n % 10) + 1]>>

\* str(n) for an int
Str(n) == IF n < 0 THEN <<"-">> \o StrNat(-n) ELSE StrNat(n)

DigitVal(c) == CHOOSE d \in 0..9 : DigitChar[d + 1] = c

IsDigit(c) == \E d \in 0..9 : DigitChar[d + 1] = c

RECURSIVE IntNat(_)
IntNat(t) == IF Len(t) = 0 THEN 0
             ELSE 10 * IntNat(SubSeq(t, 1, Len(t) - 1)) + DigitVal(t[Len(t)])

\* whether int(t) succeeds: an optional sign and at least one digit
IsIntLiteral(t) ==
    LET body == IF Len(t) > 0 /\ t[1] \in {"-", "+"} THEN Tail(t) ELSE t
    IN  Len(body) > 0 /\ \A i \in 1..Len(body) : IsDigit(body[i])

\* int(t), for a t with IsIntLiteral(t)
ParseInt(t) == IF t[1] = "-" THEN 0 - IntNat(Tail(t))
          ELSE IF t[1] = "+" THEN IntNat(Tail(t))
          ELSE IntNat(t)

\* s[-2:]
LastTwo(s) == IF Len(s) <= 2 THEN s ELSE SubSeq(s, Len(s) - 1, Len(s))

Min(S) == CHOOSE x \in S : \A y \in S : x <= y

-----------------------------------------------------------------------------
(* Table entries *)

\* a JSON list of strings, and a JSON value that is no list (a bare string)
ListEntry(items) == [isList |-> TRUE, items |-> items]
NotAList == [isList |-> FALSE, items |-> <<>>]

\* "entry and isinstance(entry, list)": a non-empty list
IsNonEmptyList(entry) == entry.isList /\ Len(entry.items) > 0

-----------------------------------------------------------------------------
(* get_skill_name *)

get_skill_name_secondary_first(d, skill_id) ==
    LET skill_id_str == Str(skill_id)
        skills_global == DictGet(d, "skills_global", EmptyDict)
        skills_jp == DictGet(d, "skills_jp", EmptyDict)
    IN  IF HasKey(skills_jp, skill_id_str)
           /\ IsNonEmptyList(skills_jp[skill_id_str])
           /\ Len(skills_jp[skill_id_str].items) > 1
        THEN skills_jp[skill_id_str].items[2]
        ELSE IF HasKey(skills_global, skill_id_str)
                /\ IsNonEmptyList(skills_global[skill_id_str])
        THEN skills_global[skill_id_str].items[1]
        ELSE None

get_skill_name(d, skill_id) ==
    LET skill_id_str == Str(skill_id)
        skills_global == DictGet(d, "skills_global", EmptyDict)
        skills_jp == DictGet(d, "skills_jp", EmptyDict)
    IN  IF HasKey(skills_global, skill_id_str)
           /\ IsNonEmptyList(skills_global[skill_id_str])
        THEN skills_global[skill_id_str].items[1]
        ELSE IF HasKey(skills_jp, skill_id_str)
                /\ IsNonEmptyList(skills_jp[skill_id_str])
                /\ Len(skills_jp[skill_id_str].items) > 1
        THEN skills_jp[skill_id_str].items[2]
        ELSE None

-----------------------------------------------------------------------------
(* get_spark_name, tier by tier.  Each tier yields a name or None. *)

\* mutant: the character index is read from four digits (spark_str[2:6])
UniqueSkillId_four_digit_index(spark_id) ==
    LET spark_str == Str(spark_id)
        middle == ParseInt(SubSeq(spark_str, 3, 6))
        variant == ParseInt(SubSeq(spark_str, 6, 6))
    IN  IF variant = 2 THEN 110001 + middle ELSE 100001 + middle

\* mutant: the alternate outfit is not told apart from the base outfit
UniqueSkillId_base_only(spark_id) ==
    LET spark_str == Str(spark_id)
        middle == ParseInt(SubSeq(spark_str, 3, 5))
    IN  100001 + middle

\* skill_id of the unique-skill tier, from the decimal digits of spark_id
UniqueSkillId(spark_id) ==
    LET spark_str == Str(spark_id)
        middle == ParseInt(SubSeq(spark_str, 3, 5))
        variant == ParseInt(SubSeq(spark_str, 6, 6))
    IN  IF variant = 2 THEN 110001 + middle ELSE 100001 + middle

UniqueSparkTier(d, spark_id) ==
    IF 10000000 <= spark_id /\ spark_id < 20000000
    THEN IF Len(Str(spark_id)) = 8
         THEN get_skill_name(d, UniqueSkillId(spark_id))
         ELSE None
    ELSE None

\* rarity of a skill_data entry: entry.get("rarity"), -1 standing for None
RarityOf(skill_data, candidate_id) ==
    LET entry == DictGet(skill_data, Str(candidate_id), EmptyDict)
    IN  DictGet(entry, "rarity", -1)

\* mutant: the first named candidate of the group, whatever its rarity
SkillSparkTier_any_rarity(d, spark_id) ==
    IF 2000000 <= spark_id /\ spark_id < 3000000
    THEN LET group_base == (spark_id \div 100) * 10
             named == {digit \in 1..9 : Truthy(get_skill_name(d, group_base + digit))}
         IN  IF named # {} THEN get_skill_name(d, group_base + Min(named))
             ELSE None
    ELSE None

SkillSparkTier(d, spark_id) ==
    IF 2000000 <= spark_id /\ spark_id < 3000000
    THEN LET group_base == (spark_id \div 100) * 10
             skill_data == DictGet(d, "skill_data", EmptyDict)
             white == {digit \in 1..9 : RarityOf(skill_data, group_base + digit) = 1}
             named == {digit \in 1..9 : Truthy(get_skill_name(d, group_base + digit))}
             white_name == IF white = {} THEN None
                           ELSE get_skill_name(d, group_base + Min(white))
         IN  IF Truthy(white_name) THEN white_name
             ELSE IF named # {} THEN get_skill_name(d, group_base + Min(named))
             ELSE None
    ELSE None

RaceSparkTier(d, spark_id) ==
    IF 1000000 <= spark_id /\ spark_id < 10000000
    THEN LET race_program_id == spark_id \div 100
             racenames == DictGet(d, "racenames", EmptyDict)
             text_race_id == 1000 + (race_program_id % 1000)
         IN  DictGet(racenames, Str(text_race_id), None)
    ELSE None

GenericSparkTier(d, spark_id) ==
    LET sparknames == DictGet(d, "sparknames", EmptyDict)
    IN  DictGet(sparknames, Str(spark_id), None)

\* mutant: the generic table is consulted first
get_spark_name_generic_first(d, spark_id) ==
    IF Truthy(GenericSparkTier(d, spark_id)) THEN GenericSparkTier(d, spark_id)
    ELSE IF Truthy(UniqueSparkTier(d, spark_id)) THEN UniqueSparkTier(d, spark_id)
    ELSE IF Truthy(SkillSparkTier(d, spark_id)) THEN SkillSparkTier(d, spark_id)
    ELSE IF Truthy(RaceSparkTier(d, spark_id)) THEN RaceSparkTier(d, spark_id)
    ELSE None

\* mutant: the race tier is consulted before the skill tier
get_spark_name_race_first(d, spark_id) ==
    IF Truthy(UniqueSparkTier(d, spark_id)) THEN UniqueSparkTier(d, spark_id)
    ELSE IF Truthy(RaceSparkTier(d, spark_id)) THEN RaceSparkTier(d, spark_id)
    ELSE IF Truthy(SkillSparkTier(d, spark_id)) THEN SkillSparkTier(d, spark_id)
    ELSE IF Truthy(GenericSparkTier(d, spark_id)) THEN GenericSparkTier(d, spark_id)
    ELSE None

get_spark_name(d, spark_id) ==
    IF Truthy(UniqueSparkTier(d, spark_id)) THEN UniqueSparkTier(d, spark_id)
    ELSE IF Truthy(SkillSparkTier(d, spark_id)) THEN SkillSparkTier(d, spark_id)
    ELSE IF Truthy(RaceSparkTier(d, spark_id)) THEN RaceSparkTier(d, spark_id)
    ELSE IF Truthy(GenericSparkTier(d, spark_id)) THEN GenericSparkTier(d, spark_id)
    ELSE None

-----------------------------------------------------------------------------
(* get_chara_info *)

\* names[1] if len(names) > 1 and names[1] else names[0]
PreferEnglish(names) ==
    IF Len(names) > 1 /\ Truthy(names[2]) THEN names[2] ELSE names[1]

DefaultNames == << <<>>, <<>> >>

\* the fields one source gives: the character name, and the outfit label and
\* card name when the source has an outfit entry for card_id
CharaFields(umas, chara_id, card_id_str) ==
    LET uma == umas[chara_id]
        names == DictGet(uma, "name", DefaultNames)
        outfits == DictGet(uma, "outfits", EmptyDict)
        chara_name_en == PreferEnglish(names)
    IN  ("chara_name_en" :> chara_name_en)
        @@ (IF HasKey(outfits, card_id_str)
            THEN ("costume_name_en" :> outfits[card_id_str])
                 @@ ("card_name_en" :> outfits[card_id_str] \o <<" ">> \o chara_name_en)
            ELSE EmptyDict)

\* mutant: a character missing from the primary table is read as an empty
\* entry, whose default name list gives an empty character name
get_chara_info_default_entry(d, card_id) ==
    LET chara_id == Str(card_id \div 100)
        umas_global == DictGet(d, "umas_global", EmptyDict)
    IN  CharaFields(umas_global @@ (chara_id :> EmptyDict), chara_id, Str(card_id))

\* "Fill in gaps from full data" runs only when the primary source gave no
\* character name; its costume test ("costume_name_en" not in result) is
\* then always true
get_chara_info(d, card_id) ==
    LET chara_id == Str(card_id \div 100)
        card_id_str == Str(card_id)
        umas_global == DictGet(d, "umas_global", EmptyDict)
        umas_full == DictGet(d, "umas_full", EmptyDict)
        result == IF HasKey(umas_global, chara_id)
                  THEN CharaFields(umas_global, chara_id, card_id_str)
                  ELSE EmptyDict
    IN  IF ~HasKey(result, "chara_name_en") /\ HasKey(umas_full, chara_id)
        THEN DictUpdate(result, CharaFields(umas_full, chara_id, card_id_str))
        ELSE result

\* names[0] on an empty name list raises IndexError
get_chara_info_raises(d, card_id) ==
    LET chara_id == Str(card_id \div 100)
        umas_global == DictGet(d, "umas_global", EmptyDict)
        umas_full == DictGet(d, "umas_full", EmptyDict)
        NoNames(umas) == Len(DictGet(umas[chara_id], "name", DefaultNames)) = 0
    IN  IF HasKey(umas_global, chara_id) THEN NoNames(umas_global)
        ELSE HasKey(umas_full, chara_id) /\ NoNames(umas_full)

-----------------------------------------------------------------------------
(* parse_condition.  A condition is a Text whose tokens are key and value   *)
(* words, digits and the single characters "&", ">", "<", "=", "!", " ".   *)

ValueError == <<"<ValueError>">>

\* marks the "continue" of the operator loop; never part of an output
ContinueOps == <<"<continue>">>

Max(S) == CHOOSE x \in S : \A y \in S : y <= x

\* s.strip()
Strip(t) ==
    LET solid == {i \in 1..Len(t) : t[i] # " "}
    IN  IF solid = {} THEN <<>> ELSE SubSeq(t, Min(solid), Max(solid))

\* s.find(sub) + 1: the index of the first occurrence of sub in t, 0 for none
Find(t, sub) ==
    LET at == {i \in 1..(Len(t) - Len(sub) + 1) :
                  SubSeq(t, i, i + Len(sub) - 1) = sub}
    IN  IF at = {} THEN 0 ELSE Min(at)

\* condition.split("&")
RECURSIVE SplitAmp(_)
SplitAmp(t) ==
    LET i == Find(t, <<"&">>)
    IN  IF i = 0 THEN <<t>>
        ELSE <<SubSeq(t, 1, i - 1)>> \o SplitAmp(SubSeq(t, i + 1, Len(t)))

\* " & ".join(parts)
RECURSIVE JoinAmp(_)
JoinAmp(parts) ==
    IF Len(parts) = 0 THEN <<>>
    ELSE IF Len(parts) = 1 THEN parts[1]
    ELSE parts[1] \o <<" ", "&", " ">> \o JoinAmp(Tail(parts))

\* word.replace("_", " ").title(), word by word; characters that are not
\* letters are left as they are
TitleToken(tok) ==
    CASE tok = "always" -> "Always"
      [] tok = "phase" -> "Phase"
      [] tok = "distance_rate" -> "Distance Rate"
      [] tok = "order" -> "Order"
      [] tok = "order_rate" -> "Order Rate"
      [] tok = "running_style" -> "Running Style"
      [] tok = "corner" -> "Corner"
      [] tok = "is_lastspurt" -> "Is Lastspurt"
      [] tok = "is_finalcorner" -> "Is Finalcorner"
      [] tok = "hp_per" -> "Hp Per"
      [] tok = "activate_count_heal" -> "Activate Count Heal"
      [] tok = "ground_type" -> "Ground Type"
      [] tok = "distance_type" -> "Distance Type"
      [] tok = "corner_random" -> "Corner Random"
      [] tok = "all_corner_random" -> "All Corner Random"
      [] tok = "accumulatetime" -> "Accumulatetime"
      [] tok = "x" -> "X"
      [] OTHER -> tok

Title(t) == [i \in 1..Len(t) |-> TitleToken(t[i])]

\* key.endswith("_random")
RandomWords == {"corner_random", "all_corner_random"}
EndsWithRandom(key) == Len(key) > 0 /\ key[Len(key)] \in RandomWords

\* word.replace("_random", "").replace("_", " ").title()
AreaToken(tok) ==
    CASE tok = "corner_random" -> "Corner"
      [] tok = "all_corner_random" -> "All Corner"
      [] OTHER -> TitleToken(tok)

Area(key) == [i \in 1..Len(key) |-> AreaToken(key[i])]

\* CONDITION_TERMS[...].get(value, f"{fallback} {value}")
TermName(names, value, fallback) ==
    IF Len(value) = 1 /\ HasKey(names, value[1]) THEN <<names[value[1]]>>
    ELSE <<fallback>> \o value

PhaseNames == [x \in {"0", "1", "2"} |->
    IF x = "0" THEN "Opening Leg" ELSE IF x = "1" THEN "Middle Leg" ELSE "Final Leg"]

RunningStyles == [x \in {"1", "2", "3", "4"} |->
    IF x = "1" THEN "Front Runner" ELSE IF x = "2" THEN "Pace Chaser"
    ELSE IF x = "3" THEN "Late Surger" ELSE "End Closer"]

GroundTypes == [x \in {"1", "2"} |-> IF x = "1" THEN "Turf" ELSE "Dirt"]

DistanceTypes == [x \in {"1", "2", "3", "4"} |->
    IF x = "1" THEN "Sprint" ELSE IF x = "2" THEN "Mile"
    ELSE IF x = "3" THEN "Medium" ELSE "Long"]

GE == <<">", "=">>
LE == <<"<", "=">>
EQEQ == <<"=", "=">>
NE == <<"!", "=">>
GT == <<">">>
LT == <<"<">>
EQ == <<"=">>

\* the operators in the order the parser tries them
Operators == <<GE, LE, EQEQ, NE, GT, LT, EQ>>

\* the elif chain: the text appended for (key, op, value), ValueError when
\* int(value) fails, ContinueOps for the key "always".
\* "HP [le]" and "HP [ge]" stand for "HP" followed by the signs U+2264, U+2265.
RenderClause(key, op, value) ==
    IF key = <<"phase">> THEN
        IF op \in {EQEQ, EQ} THEN TermName(PhaseNames, value, "Phase ")
        ELSE IF op = GE THEN TermName(PhaseNames, value, "Phase ") \o <<"+">>
        ELSE <<"phase">> \o op \o value
    ELSE IF key = <<"distance_rate">> THEN
        IF op = GE THEN <<"After ">> \o value \o <<"% of race">>
        ELSE IF op = LE THEN <<"Before ">> \o value \o <<"% of race">>
        ELSE value \o <<"% of race">>
    ELSE IF key = <<"order">> THEN
        IF op = LE THEN <<"Top ">> \o value
        ELSE IF op = GE THEN <<"Position ">> \o value \o <<"+">>
        ELSE <<"Position ">> \o value
    ELSE IF key = <<"order_rate">> THEN
        IF op = LE THEN <<"Top ">> \o value \o <<"%">>
        ELSE IF op = GE THEN
            IF IsIntLiteral(value)
            THEN <<"Back ">> \o Str(100 - ParseInt(value)) \o <<"%">>
            ELSE ValueError
        ELSE value \o <<"% of field">>
    ELSE IF key = <<"running_style">> THEN TermName(RunningStyles, value, "Style ")
    ELSE IF key = <<"corner">> THEN
        IF value = <<"0">> THEN <<"Not in corner">> ELSE <<"Corner ">> \o value
    ELSE IF key = <<"is_lastspurt">> /\ value = <<"1">> THEN <<"Last Spurt">>
    ELSE IF key = <<"is_finalcorner">> /\ value = <<"1">> THEN <<"Final Corner">>
    ELSE IF key = <<"hp_per">> THEN
        IF op = LE THEN <<"HP [le]">> \o value \o <<"%">>
        ELSE IF op = GE THEN <<"HP [ge]">> \o value \o <<"%">>
        ELSE <<"HP ">> \o value \o <<"%">>
    ELSE IF key = <<"activate_count_heal">> THEN
        <<"After ">> \o value \o <<" recovery skill(s)">>
    ELSE IF key = <<"ground_type">> THEN TermName(GroundTypes, value, "Ground ")
    ELSE IF key = <<"distance_type">> THEN TermName(DistanceTypes, value, "Distance ")
    ELSE IF EndsWithRandom(key) /\ value = <<"1">> THEN <<"Random in ">> \o Area(key)
    ELSE IF key = <<"always">> THEN ContinueOps
    ELSE Title(key) \o <<" ">> \o op \o <<" ">> \o value

\* the split of term at the first occurrence of op: term.split(op, 1)
KeyOf(term, op) == Strip(SubSeq(term, 1, Find(term, op) - 1))
ValueOf(term, op) == Strip(SubSeq(term, Find(term, op) + Len(op), Len(term)))

\* the "for op in [...]" loop from operator number i on, with its else
\* branch: a "continue" goes on to the next operator, and a loop that ends
\* without "break" appends the title-cased term
RECURSIVE RenderTermFrom(_, _)
RenderTermFrom(term, i) ==
    IF i > Len(Operators) THEN Title(term)
    ELSE IF Find(term, Operators[i]) = 0 THEN RenderTermFrom(term, i + 1)
    ELSE LET out == RenderClause(KeyOf(term, Operators[i]), Operators[i],
                                 ValueOf(term, Operators[i]))
         IN  IF out = ContinueOps THEN RenderTermFrom(term, i + 1) ELSE out

RenderTerm(term) == RenderTermFrom(term, 1)

\* mutant: the parts are appended last term first
RECURSIVE RenderTerms_reversed(_)
RenderTerms_reversed(terms) ==
    IF Len(terms) = 0 THEN <<>>
    ELSE IF Strip(terms[1]) = <<>> THEN RenderTerms_reversed(Tail(terms))
    ELSE RenderTerms_reversed(Tail(terms)) \o <<RenderTerm(Strip(terms[1]))>>

\* the parts appended for the stripped, non-empty terms, in order
RECURSIVE RenderTerms(_)
RenderTerms(terms) ==
    IF Len(terms) = 0 THEN <<>>
    ELSE IF Strip(terms[1]) = <<>> THEN RenderTerms(Tail(terms))
    ELSE <<RenderTerm(Strip(terms[1]))>> \o RenderTerms(Tail(terms))

parse_condition(condition) ==
    IF condition = <<>> THEN <<"Always">>
    ELSE LET parts == RenderTerms(SplitAmp(condition))
         IN  IF \E i \in 1..Len(parts) : parts[i] = ValueError THEN ValueError
             ELSE IF Len(parts) > 0 THEN JoinAmp(parts)
             ELSE <<"Always">>

-----------------------------------------------------------------------------
(* format_effect.  The modifier is divided in floating point and printed   *)
(* with a fixed number of decimals.                                        *)

KnownEffectTypes == {0, 1, 2, 3, 4, 5, 9, 10, 14, 21, 22, 27, 28, 31, 35, 37, 42}

EffectLabel(etype) ==
    CASE etype = 0 -> "No Effect"
      [] etype = 1 -> "Speed +"
      [] etype = 2 -> "Stamina +"
      [] etype = 3 -> "Power +"
      [] etype = 4 -> "Guts +"
      [] etype = 5 -> "Wit +"
      [] etype = 9 -> "Stamina Recovery"
      [] etype = 10 -> "Start Delay x"
      [] etype = 14 -> "Set Start Delay"
      [] etype = 21 -> "Current Speed +"
      [] etype = 22 -> "Current Speed + (w/ decel)"
      [] etype = 27 -> "Target Speed +"
      [] etype = 28 -> "Lane Move Speed +"
      [] etype = 31 -> "Acceleration +"
      [] etype = 35 -> "Change Lane"
      [] etype = 37 -> "Activate Random Gold"
      [] etype = 42 -> "Extend Evolved Duration"

\* EFFECT_TYPES.get(etype, default)
EffectTypeName(etype, default) ==
    IF etype \in KnownEffectTypes THEN <<EffectLabel(etype)>> ELSE default

RECURSIVE BitLength(_)
BitLength(n) == IF n = 0 THEN 0 ELSE 1 + BitLength(n \div 2)

\* The 53-bit double nearest to r/div (0 < r < div) is found by long
\* division: +1 when it lies above r/div, -1 when below, 0 when equal.
\* left: significant bits still to produce; started: a 1 bit was produced;
\* last: the last bit produced.
RECURSIVE DoubleError(_, _, _, _, _)
DoubleError(r, div, left, started, last) ==
    IF r = 0 THEN 0
    ELSE IF left = 0
    THEN IF 2 * r > div THEN 1
         ELSE IF 2 * r < div THEN -1
         ELSE IF last = 1 THEN 1 ELSE -1
    ELSE LET bit == IF 2 * r >= div THEN 1 ELSE 0
             nowStarted == started \/ bit = 1
         IN  DoubleError(2 * r - bit * div, div,
                         IF nowStarted THEN left - 1 ELSE left, nowStarted, bit)

\* sign of (double(a / div) - a / div) for a >= 0
QuotientError(a, div) ==
    DoubleError(a % div, div, 53 - BitLength(a \div div), a \div div > 0,
                (a \div div) % 2)

RECURSIVE Pow10(_)
Pow10(n) == IF n = 0 THEN 1 ELSE 10 * Pow10(n - 1)

RECURSIVE ZeroPad(_, _)
ZeroPad(t, width) == IF Len(t) >= width THEN t ELSE ZeroPad(<<"0">> \o t, width)

\* f"{m / div:.{decimals}f}" for div a power of ten, decimals <= log10(div):
\* the double quotient, rounded half-even to the decimals asked for
FormatFixed(m, div, decimals) ==
    LET a == IF m < 0 THEN 0 - m ELSE m
        scale == div \div Pow10(decimals)
        whole == a \div scale
        rem == a % scale
        err == QuotientError(a, div)
        up == \/ 2 * rem > scale
              \/ /\ 2 * rem = scale
                 /\ (err > 0 \/ (err = 0 /\ whole % 2 = 1))
        n == IF up THEN whole + 1 ELSE whole
        digits == StrNat(n \div Pow10(decimals))
                  \o (IF decimals = 0 THEN <<>>
                      ELSE <<".">> \o ZeroPad(StrNat(n % Pow10(decimals)), decimals))
    IN  (IF m < 0 THEN <<"-">> ELSE <<>>) \o digits

\* mutant: acceleration (type 31) is formatted with two decimals like a speed
format_effect_two_decimals(effect) ==
    LET etype == DictGet(effect, "type", 0)
        modifier == DictGet(effect, "modifier", 0)
        type_name == EffectTypeName(etype, <<"Effect ">> \o Str(etype))
    IN  IF etype \in {1, 2, 3, 4, 5} THEN type_name \o Str(modifier)
        ELSE IF etype = 9
        THEN <<"Recover ">> \o FormatFixed(modifier, 100, 0) \o <<"% Stamina">>
        ELSE IF etype \in {21, 22, 27}
        THEN type_name \o FormatFixed(modifier, 10000, 2) \o <<"m/s">>
        ELSE IF etype = 31 THEN type_name \o FormatFixed(modifier, 10000, 2)
        ELSE IF etype = 10 THEN <<"Start Delay x">> \o Str(modifier)
        ELSE type_name \o <<" (">> \o Str(modifier) \o <<")">>

format_effect(effect) ==
    LET etype == DictGet(effect, "type", 0)
        modifier == DictGet(effect, "modifier", 0)
        type_name == EffectTypeName(etype, <<"Effect ">> \o Str(etype))
    IN  IF etype \in {1, 2, 3, 4, 5} THEN type_name \o Str(modifier)
        ELSE IF etype = 9
        THEN <<"Recover ">> \o FormatFixed(modifier, 100, 0) \o <<"% Stamina">>
        ELSE IF etype \in {21, 22, 27}
        THEN type_name \o FormatFixed(modifier, 10000, 2) \o <<"m/s">>
        ELSE IF etype = 31 THEN type_name \o FormatFixed(modifier, 10000, 4)
        ELSE IF etype = 10 THEN <<"Start Delay x">> \o Str(modifier)
        ELSE type_name \o <<" (">> \o Str(modifier) \o <<")">>

-----------------------------------------------------------------------------
(* get_skill_type, get_skill_details *)

StartsWith(t, prefix) == Len(t) >= Len(prefix) /\ SubSeq(t, 1, Len(prefix)) = prefix

\* mutant: the negative-modifier test comes before the stat-boost test
get_skill_type_blue_first(skill_id, effects) ==
    LET sid == Str(skill_id)
    IN  IF \E i \in 1..Len(effects) : DictGet(effects[i], "modifier", 0) < 0
        THEN <<"blue">>
        ELSE IF \E i \in 1..Len(effects) : DictGet(effects[i], "type", 0) \in {1, 2, 3, 4, 5}
        THEN <<"green">>
        ELSE IF Len(sid) = 6 /\ (StartsWith(sid, <<"1", "0">>) \/ StartsWith(sid, <<"1", "1">>))
        THEN <<"unique">>
        ELSE IF Len(sid) = 6 /\ (StartsWith(sid, <<"9", "0">>) \/ StartsWith(sid, <<"9", "1">>))
        THEN <<"inherited">>
        ELSE None

get_skill_type(skill_id, effects) ==
    LET sid == Str(skill_id)
    IN  IF \E i \in 1..Len(effects) : DictGet(effects[i], "type", 0) \in {1, 2, 3, 4, 5}
        THEN <<"green">>
        ELSE IF \E i \in 1..Len(effects) : DictGet(effects[i], "modifier", 0) < 0
        THEN <<"blue">>
        ELSE IF Len(sid) = 6 /\ (StartsWith(sid, <<"1", "0">>) \/ StartsWith(sid, <<"1", "1">>))
        THEN <<"unique">>
        ELSE IF Len(sid) = 6 /\ (StartsWith(sid, <<"9", "0">>) \/ StartsWith(sid, <<"9", "1">>))
        THEN <<"inherited">>
        ELSE None

\* mutant: rarity 3 is labelled "Gold"
RarityName_gold_from_three(rarity) ==
    IF rarity \in {1, 2} THEN <<"White">>
    ELSE IF rarity \in {3, 4, 5} THEN <<"Gold">>
    ELSE IF rarity = 6 THEN <<"Unique">>
    ELSE <<"Rarity ">> \o Str(rarity)

\* rarity_names.get(rarity, f"Rarity {rarity}")
RarityName(rarity) ==
    IF rarity \in {1, 2, 3} THEN <<"White">>
    ELSE IF rarity \in {4, 5} THEN <<"Gold">>
    ELSE IF rarity = 6 THEN <<"Unique">>
    ELSE <<"Rarity ">> \o Str(rarity)

\* ", ".join(e["readable"] for e in effects)
RECURSIVE JoinComma(_)
JoinComma(effects) ==
    IF Len(effects) = 0 THEN <<>>
    ELSE IF Len(effects) = 1 THEN effects[1].readable
    ELSE effects[1].readable \o <<", ">> \o JoinComma(Tail(effects))

EffectInfo(eff) ==
    [type |-> DictGet(eff, "type", 0),
     type_name |-> EffectTypeName(DictGet(eff, "type", 0), <<"Unknown">>),
     modifier |-> DictGet(eff, "modifier", 0),
     readable |-> format_effect(eff)]

\* mutant: the result holds the effects list of the table itself
\* (result["effects"] = effects) instead of a list built from it
AlternativeFields_shared_effects(skill_id, rarity_name, alt) ==
    LET condition == DictGet(alt, "condition", <<>>)
        condition_readable == parse_condition(condition)
        base_duration == DictGet(alt, "baseDuration", 0)
        effects == DictGet(alt, "effects", <<>>)
        infos == [i \in 1..Len(effects) |-> EffectInfo(effects[i])]
        skill_type == get_skill_type(skill_id, effects)
    IN  ("condition" :> condition)
        @@ ("condition_readable" :> condition_readable)
        @@ (IF base_duration # 0
            THEN ("duration_base_ms" :> base_duration)
                 @@ ("duration_per_1000m" :> FormatFixed(base_duration, 1000, 1) \o <<"s">>)
            ELSE EmptyDict)
        @@ ("effects" :> effects)
        @@ ("skill_type" :>
                IF Truthy(skill_type) THEN skill_type
                ELSE IF rarity_name = <<"Gold">> THEN <<"gold">>
                ELSE IF rarity_name = <<"Unique">> THEN <<"unique">>
                ELSE <<"white">>)
        @@ ("summary" :> condition_readable \o <<" [arrow] ">> \o JoinComma(infos))

\* the fields the first alternative adds to the result.
\* " [arrow] " stands for the arrow U+2192 between blanks.
AlternativeFields(skill_id, rarity_name, alt) ==
    LET condition == DictGet(alt, "condition", <<>>)
        condition_readable == parse_condition(condition)
        base_duration == DictGet(alt, "baseDuration", 0)
        effects == DictGet(alt, "effects", <<>>)
        infos == [i \in 1..Len(effects) |-> EffectInfo(effects[i])]
        skill_type == get_skill_type(skill_id, effects)
    IN  ("condition" :> condition)
        @@ ("condition_readable" :> condition_readable)
        @@ (IF base_duration # 0
            THEN ("duration_base_ms" :> base_duration)
                 @@ ("duration_per_1000m" :> FormatFixed(base_duration, 1000, 1) \o <<"s">>)
            ELSE EmptyDict)
        @@ ("effects" :> infos)
        @@ ("skill_type" :>
                IF Truthy(skill_type) THEN skill_type
                ELSE IF rarity_name = <<"Gold">> THEN <<"gold">>
                ELSE IF rarity_name = <<"Unique">> THEN <<"unique">>
                ELSE <<"white">>)
        @@ ("summary" :> condition_readable \o <<" [arrow] ">> \o JoinComma(infos))

\* the skill_data entry of skill_id, EmptyDict when there is none
SkillEntry(d, skill_id) ==
    DictGet(DictGet(d, "skill_data", EmptyDict), Str(skill_id), EmptyDict)

\* the result dict; EmptyDict stands for the None returned for a missing or
\* empty definition (a result that is returned always holds "rarity")
get_skill_details(d, skill_id) ==
    LET skill_entry == SkillEntry(d, skill_id)
        rarity_name == RarityName(DictGet(skill_entry, "rarity", 0))
        alternatives == DictGet(skill_entry, "alternatives", <<>>)
    IN  IF skill_entry = EmptyDict THEN EmptyDict
        ELSE ("rarity" :> rarity_name)
             @@ (IF Len(alternatives) > 0
                 THEN AlternativeFields(skill_id, rarity_name, alternatives[1])
                 ELSE EmptyDict)

\* parse_condition raises ValueError out of get_skill_details
get_skill_details_raises(d, skill_id) ==
    LET alternatives == DictGet(SkillEntry(d, skill_id), "alternatives", <<>>)
    IN  /\ Len(alternatives) > 0
        /\ parse_condition(DictGet(alternatives[1], "condition", <<>>)) = ValueError

-----------------------------------------------------------------------------
(* The single-table lookups and get_support_card_info *)

get_race_title_name(d, saddle_id) ==
    DictGet(DictGet(d, "racetitles", EmptyDict), Str(saddle_id), None)

get_nickname_name(d, nickname_id) ==
    DictGet(DictGet(d, "nicknames", EmptyDict), Str(nickname_id), None)

get_race_cloth_name(d, race_cloth_id) ==
    DictGet(DictGet(d, "outfitnames", EmptyDict), Str(race_cloth_id), None)

\* SUPPORT_CARD_TYPES.get(digit), None for a digit outside 1-7
SupportCardType(digit) ==
    CASE digit = "1" -> <<"Speed">>
      [] digit = "2" -> <<"Stamina">>
      [] digit = "3" -> <<"Power">>
      [] digit = "4" -> <<"Guts">>
      [] digit = "5" -> <<"Wit">>
      [] digit = "6" -> <<"Friend">>
      [] digit = "7" -> <<"Group">>
      [] OTHER -> None

\* mutant: the type is set only for a card the table knows
get_support_card_info_type_if_known(d, support_card_id) ==
    LET supportcardnames == DictGet(d, "supportcardnames", EmptyDict)
        sid_str == Str(support_card_id)
        entry == DictGet(supportcardnames, sid_str, EmptyDict)
        stype == SupportCardType(sid_str[1])
    IN  (IF HasKey(entry, "name")
         THEN "support_card_name_en" :> entry["name"] ELSE EmptyDict)
        @@ (IF HasKey(entry, "title")
            THEN "support_card_title_en" :> entry["title"] ELSE EmptyDict)
        @@ (IF HasKey(entry, "chara")
            THEN "support_card_chara_en" :> entry["chara"] ELSE EmptyDict)
        @@ (IF HasKey(supportcardnames, sid_str) /\ Truthy(stype)
            THEN "support_card_type" :> stype ELSE EmptyDict)

get_support_card_info(d, support_card_id) ==
    LET supportcardnames == DictGet(d, "supportcardnames", EmptyDict)
        sid_str == Str(support_card_id)
        entry == DictGet(supportcardnames, sid_str, EmptyDict)
        stype == SupportCardType(sid_str[1])
    IN  (IF HasKey(entry, "name")
         THEN "support_card_name_en" :> entry["name"] ELSE EmptyDict)
        @@ (IF HasKey(entry, "title")
            THEN "support_card_title_en" :> entry["title"] ELSE EmptyDict)
        @@ (IF HasKey(entry, "chara")
            THEN "support_card_chara_en" :> entry["chara"] ELSE EmptyDict)
        @@ (IF Truthy(stype) THEN "support_card_type" :> stype ELSE EmptyDict)

-----------------------------------------------------------------------------
(* enrich_character.  The record is mutated in place, stage by stage; an   *)
(* exception leaves it as the stages before the raise made it.  Each stage *)
(* yields [char, exc]; exc = "" when nothing was raised.                   *)

Done(c) == [char |-> c, exc |-> ""]
Raised(c, e) == [char |-> c, exc |-> e]

\* mutant: the record is replaced by the derived fields
MergeInfo_replace(c, info) == info

\* c.update(info)
MergeInfo(c, info) == DictUpdate(c, info)

\* entry[k] = name, if name
SetIfTruthy(entry, k, name) == IF Truthy(name) THEN DictSet(entry, k, name) ELSE entry

\* card_id: character, costume and card names
EnrichCard(c, d) ==
    LET card_id == DictGet(c, "card_id", 0)
    IN  IF card_id = 0 THEN Done(c)
        ELSE IF get_chara_info_raises(d, card_id) THEN Raised(c, "IndexError")
        ELSE Done(MergeInfo(c, get_chara_info(d, card_id)))

\* race_cloth_id: outfit name
EnrichCloth(c, d) ==
    IF DictGet(c, "race_cloth_id", 0) = 0 THEN c
    ELSE SetIfTruthy(c, "race_cloth_name_en", get_race_cloth_name(d, c["race_cloth_id"]))

\* the six detail fields, each written whether or not the details hold it
SkillDetailFields(skill_details) ==
    [rarity |-> DictGet(skill_details, "rarity", None),
     skill_type |-> DictGet(skill_details, "skill_type", None),
     condition |-> DictGet(skill_details, "condition_readable", None),
     effects |-> DictGet(skill_details, "effects", <<>>),
     duration |-> DictGet(skill_details, "duration_per_1000m", None),
     summary |-> DictGet(skill_details, "summary", None)]

\* the name of a skill entry; all that is written when its details raise
EnrichSkillName(skill, d) ==
    SetIfTruthy(skill, "skill_name_en", get_skill_name(d, DictGet(skill, "skill_id", 0)))

\* if skill_details: the six detail fields
SetSkillDetails(skill, skill_details) ==
    IF skill_details # EmptyDict
    THEN DictUpdate(skill, SkillDetailFields(skill_details))
    ELSE skill

\* one skill entry, for a skill_id whose details do not raise
EnrichSkill(skill, d) ==
    IF DictGet(skill, "skill_id", 0) = 0 THEN skill
    ELSE SetSkillDetails(EnrichSkillName(skill, d),
                         get_skill_details(d, DictGet(skill, "skill_id", 0)))

SkillRaises(skill, d) ==
    /\ DictGet(skill, "skill_id", 0) # 0
    /\ get_skill_details_raises(d, DictGet(skill, "skill_id", 0))

\* the skill loop from entry i on
RECURSIVE EnrichSkillsFrom(_, _, _)
EnrichSkillsFrom(skills, d, i) ==
    IF i > Len(skills) THEN [arr |-> skills, exc |-> ""]
    ELSE IF SkillRaises(skills[i], d)
    THEN [arr |-> [skills EXCEPT ![i] = EnrichSkillName(skills[i], d)],
          exc |-> "ValueError"]
    ELSE EnrichSkillsFrom([skills EXCEPT ![i] = EnrichSkill(skills[i], d)], d, i + 1)

\* the record with array k as the loop left it, and what the loop raised
LoopResult(c, k, r) == Raised(DictSet(c, k, r.arr), r.exc)

EnrichSkills(c, d) ==
    IF ~HasKey(c, "skill_array") THEN Done(c)
    ELSE LoopResult(c, "skill_array", EnrichSkillsFrom(c["skill_array"], d, 1))

\* int(str(spark_id)[-2:])
StarLevel(spark_id) == ParseInt(LastTwo(Str(spark_id)))

\* mutant: every star level from 1 to 9 is accepted
StarsField_up_to_nine(spark_id) ==
    IF 1 <= StarLevel(spark_id) /\ StarLevel(spark_id) <= 9
    THEN "stars" :> StarLevel(spark_id) ELSE EmptyDict

StarsField(spark_id) ==
    IF 1 <= StarLevel(spark_id) /\ StarLevel(spark_id) <= 3
    THEN "stars" :> StarLevel(spark_id) ELSE EmptyDict

\* {k: name} if name, else {}
NameField(k, name) == IF Truthy(name) THEN k :> name ELSE EmptyDict

SparkNameField(d, spark_id) == NameField("spark_name_en", get_spark_name(d, spark_id))

SparkEntry(d, spark_id) ==
    ("spark_id" :> spark_id) @@ SparkNameField(d, spark_id) @@ StarsField(spark_id)

\* mutant: the enriched entries are appended to the array already there
EnrichSparks_append(c, d) ==
    LET factor_id_array == DictGet(c, "factor_id_array", <<>>)
        enriched_sparks ==
            [i \in 1..Len(factor_id_array) |-> SparkEntry(d, factor_id_array[i])]
    IN  IF Len(enriched_sparks) > 0
        THEN DictSet(c, "spark_array_enriched",
                     DictGet(c, "spark_array_enriched", <<>>) \o enriched_sparks)
        ELSE c

\* factor_id_array: spark_array_enriched, written when it is not empty
EnrichSparks(c, d) ==
    LET factor_id_array == DictGet(c, "factor_id_array", <<>>)
        enriched_sparks ==
            [i \in 1..Len(factor_id_array) |-> SparkEntry(d, factor_id_array[i])]
    IN  IF Len(enriched_sparks) > 0
        THEN DictSet(c, "spark_array_enriched", enriched_sparks)
        ELSE c

\* factor_info_array of the record itself: the name only
EnrichFactorInfo(factor_info, d) ==
    LET spark_id == DictGet(factor_info, "factor_id", 0)
    IN  IF spark_id # 0 THEN DictUpdate(factor_info, SparkNameField(d, spark_id))
        ELSE factor_info

EnrichFactorInfos(c, d) ==
    IF ~HasKey(c, "factor_info_array") THEN c
    ELSE DictSet(c, "factor_info_array",
                 [i \in 1..Len(c["factor_info_array"]) |->
                      EnrichFactorInfo(c["factor_info_array"][i], d)])

WinEntry(d, saddle_id) ==
    ("saddle_id" :> saddle_id)
    @@ NameField("race_name_en", get_race_title_name(d, saddle_id))

\* mutant: only the wins whose title resolved get an entry
EnrichWins_named_only(c, d) ==
    LET win_saddle_array == DictGet(c, "win_saddle_id_array", <<>>)
        Named(win_entry) == HasKey(win_entry, "race_name_en")
    IN  IF Len(win_saddle_array) > 0
        THEN DictSet(c, "win_saddle_array_enriched",
                     SelectSeq([i \in 1..Len(win_saddle_array) |->
                                    WinEntry(d, win_saddle_array[i])], Named))
        ELSE c

EnrichWins(c, d) ==
    LET win_saddle_array == DictGet(c, "win_saddle_id_array", <<>>)
    IN  IF Len(win_saddle_array) > 0
        THEN DictSet(c, "win_saddle_array_enriched",
                     [i \in 1..Len(win_saddle_array) |-> WinEntry(d, win_saddle_array[i])])
        ELSE c

NicknameEntry(d, nickname_id) ==
    ("nickname_id" :> nickname_id)
    @@ NameField("nickname_name_en", get_nickname_name(d, nickname_id))

EnrichNicknames(c, d) ==
    LET nickname_array == DictGet(c, "nickname_id_array", <<>>)
    IN  IF Len(nickname_array) > 0
        THEN DictSet(c, "nickname_array_enriched",
                     [i \in 1..Len(nickname_array) |-> NicknameEntry(d, nickname_array[i])])
        ELSE c

EnrichSupport(support, d) ==
    LET support_id == DictGet(support, "support_card_id", 0)
    IN  IF support_id # 0
        THEN DictUpdate(support, get_support_card_info(d, support_id))
        ELSE support

EnrichSupports(c, d) ==
    IF ~HasKey(c, "support_card_list") THEN c
    ELSE DictSet(c, "support_card_list",
                 [i \in 1..Len(c["support_card_list"]) |->
                      EnrichSupport(c["support_card_list"][i], d)])

\* a parent's factor_info entry: the name and the star level
EnrichParentSpark(spark, d) ==
    LET spark_id == DictGet(spark, "factor_id", 0)
    IN  IF spark_id # 0
        THEN DictUpdate(spark, SparkNameField(d, spark_id) @@ StarsField(spark_id))
        ELSE spark

\* one parent with a card_id whose lookup does not raise
EnrichParent(parent, d) ==
    LET info == MergeInfo(parent, get_chara_info(d, parent["card_id"]))
    IN  IF ~HasKey(info, "factor_info_array") THEN info
        ELSE DictSet(info, "factor_info_array",
                     [i \in 1..Len(info["factor_info_array"]) |->
                          EnrichParentSpark(info["factor_info_array"][i], d)])

\* mutant: the trait entries of a parent without card_id are enriched too
RECURSIVE EnrichParentsFrom_ungated(_, _, _)
EnrichParentsFrom_ungated(parents, d, i) ==
    IF i > Len(parents) THEN [arr |-> parents, exc |-> ""]
    ELSE IF DictGet(parents[i], "card_id", 0) = 0
    THEN EnrichParentsFrom_ungated(
             [parents EXCEPT ![i] =
                  IF ~HasKey(parents[i], "factor_info_array") THEN parents[i]
                  ELSE DictSet(parents[i], "factor_info_array",
                               [j \in 1..Len(parents[i]["factor_info_array"]) |->
                                    EnrichParentSpark(parents[i]["factor_info_array"][j], d)])],
             d, i + 1)
    ELSE IF get_chara_info_raises(d, parents[i]["card_id"])
    THEN [arr |-> parents, exc |-> "IndexError"]
    ELSE EnrichParentsFrom_ungated([parents EXCEPT ![i] = EnrichParent(parents[i], d)], d, i + 1)

\* the parent loop from entry i on
RECURSIVE EnrichParentsFrom(_, _, _)
EnrichParentsFrom(parents, d, i) ==
    IF i > Len(parents) THEN [arr |-> parents, exc |-> ""]
    ELSE IF DictGet(parents[i], "card_id", 0) = 0
    THEN EnrichParentsFrom(parents, d, i + 1)
    ELSE IF get_chara_info_raises(d, parents[i]["card_id"])
    THEN [arr |-> parents, exc |-> "IndexError"]
    ELSE EnrichParentsFrom([parents EXCEPT ![i] = EnrichParent(parents[i], d)], d, i + 1)

EnrichParents(c, d) ==
    IF ~HasKey(c, "succession_chara_array") THEN Done(c)
    ELSE LoopResult(c, "succession_chara_array",
                    EnrichParentsFrom(c["succession_chara_array"], d, 1))

\* the stages after the skill loop: sparks, factor infos, wins, nicknames,
\* support cards and parents; not reached when the skill loop raised
AfterSkills(skills, d) ==
    IF skills.exc # "" THEN skills
    ELSE EnrichParents(
             EnrichSupports(EnrichNicknames(EnrichWins(
                 EnrichFactorInfos(EnrichSparks(skills.char, d), d), d), d), d), d)

\* the stages after the card lookup; not reached when the lookup raised
AfterCard(card, d) ==
    IF card.exc # "" THEN card
    ELSE AfterSkills(EnrichSkills(EnrichCloth(card.char, d), d), d)

\* the record after the call and the exception the call raised, if any
enrich_character(c, d) == AfterCard(EnrichCard(c, d), d)

-----------------------------------------------------------------------------
(* Table snapshots for the trait (spark) resolver.  A snapshot is built    *)
(* from one choice per table entry; an entry is absent, or holds the value *)
(* its choice names.                                                       *)

Opt(present, k, v) == IF present THEN k :> v ELSE EmptyDict

\* a skill-name entry: absent, a non-list, [], [""], or [name]
NameEntry(k, o) ==
    IF o = "absent" THEN EmptyDict
    ELSE IF o = "notalist" THEN k :> NotAList
    ELSE IF o = "emptylist" THEN k :> ListEntry(<<>>)
    ELSE IF o = "empty" THEN k :> ListEntry(<< <<>> >>)
    ELSE k :> ListEntry(<< <<o>> >>)

\* a community entry [JP name, EN name]
JpEntry(k, o) ==
    IF o = "absent" THEN EmptyDict
    ELSE IF o = "notalist" THEN k :> NotAList
    ELSE IF o = "short" THEN k :> ListEntry(<< <<"JP">> >>)
    ELSE k :> ListEntry(<< <<"JP">>, <<o>> >>)

\* a skill definition holding a rarity only (0 standing for an absent entry)
RarityEntry(k, r) == IF r = 0 THEN EmptyDict ELSE k :> [rarity |-> r]

SparkData(c) ==
    [skills_global |->
         NameEntry(Str(100061), c.g100061) @@ NameEntry(Str(110061), c.g110061)
         @@ NameEntry(Str(200491), c.g200491) @@ NameEntry(Str(200492), c.g200492),
     skills_jp |->
         JpEntry(Str(100061), c.j100061) @@ JpEntry(Str(200491), c.j200491),
     skill_data |->
         RarityEntry(Str(200491), c.sd200491) @@ RarityEntry(Str(200492), c.sd200492),
     umas_global |-> EmptyDict,
     umas_full |-> EmptyDict,
     sparknames |->
         Opt(c.sp101, Str(101), <<"Speed">>) @@ Opt(c.sp102, Str(102), <<"Speed">>)
         @@ Opt(c.spU1, Str(10060101), <<"Oguri Cap Unique">>)
         @@ Opt(c.spS1, Str(2004901), <<"Slight Detour">>)
         @@ Opt(c.spR1, Str(1001201), <<"Derby Spark">>),
     racenames |->
         Opt(c.rn1049, Str(1049), <<"Satsuki Sho">>)
         @@ Opt(c.rn1012, Str(1012), <<"Japanese Derby">>),
     outfitnames |-> EmptyDict,
     supportcardnames |-> EmptyDict,
     racetitles |-> EmptyDict,
     nicknames |-> EmptyDict]

\* the unique-skill entries vary, the rest is the bundled fixture
UniqueChoices ==
    [g100061 : {"absent", "notalist", "empty", "Triumphant Pulse"},
     g110061 : {"absent", "Festive Miracle", "Triumphant Pulse"},
     j100061 : {"absent", "Victory Pulse"},
     g200491 : {"Nimble Navigator"}, g200492 : {"No Stopping Me!"},
     j200491 : {"absent"}, sd200491 : {1}, sd200492 : {4},
     sp101 : {TRUE}, sp102 : {TRUE}, spU1 : BOOLEAN, spS1 : {FALSE},
     spR1 : {FALSE}, rn1049 : {FALSE}, rn1012 : {TRUE}]

\* the skill group 20049x varies
SkillChoices ==
    [g100061 : {"Triumphant Pulse"}, g110061 : {"Festive Miracle"},
     j100061 : {"absent"},
     g200491 : {"absent", "Nimble Navigator"},
     g200492 : {"absent", "No Stopping Me!"},
     j200491 : {"absent", "short", "Slight Detour"},
     sd200491 : {0, 1, 4}, sd200492 : {0, 1, 4},
     sp101 : {TRUE}, sp102 : {TRUE}, spU1 : {FALSE}, spS1 : BOOLEAN,
     spR1 : {FALSE}, rn1049 : BOOLEAN, rn1012 : {TRUE}]

\* the race and generic entries vary
RaceGenericChoices ==
    [g100061 : {"Triumphant Pulse"}, g110061 : {"Festive Miracle"},
     j100061 : {"absent"},
     g200491 : {"Nimble Navigator"}, g200492 : {"No Stopping Me!"},
     j200491 : {"absent"}, sd200491 : {1}, sd200492 : {4},
     sp101 : BOOLEAN, sp102 : BOOLEAN, spU1 : {FALSE}, spS1 : {FALSE},
     spR1 : BOOLEAN, rn1049 : {FALSE}, rn1012 : BOOLEAN]

\* EmptyDict: load_all_data found no data/ directory
SparkSnapshots ==
    {SparkData(c) : c \in UniqueChoices \cup SkillChoices \cup RaceGenericChoices}
    \cup {EmptyDict}

\* trait IDs: unique-skill (base, alt and third outfit, several star levels,
\* and the ends of the range: character index 0 and 999), skill, race,
\* generic, and one above every range
SparkIds ==
    {10060101, 10060103, 10060201, 10060203, 10060301,
     10000000, 10000201, 10999101, 10999201, 19999999,
     2004901, 2004903, 1001201, 1001202, 9999901, 101, 102, 20060101}

-----------------------------------------------------------------------------
(* Resolver calls.  The resolvers are pure functions of the tables and    *)
(* their argument, so a behaviour makes one call: fn = "" until then.      *)

NoRecord ==
    /\ char = EmptyDict /\ before = EmptyDict /\ usedData = <<>>
    /\ runs = 0 /\ exc = ""

GetSparkName ==
    \E spark_id \in SparkIds :
        /\ fn = ""
        /\ fn' = "get_spark_name"
        /\ arg' = spark_id
        /\ ret' = get_spark_name(data, spark_id)
        /\ UNCHANGED <<batch, data, char, before, usedData, runs, exc>>

InitSpark ==
    /\ NoBatch
    /\ data \in SparkSnapshots
    /\ NoRecord
    /\ fn = "" /\ arg = 0 /\ ret = None

NextSpark == GetSparkName

SpecSpark == InitSpark /\ [][NextSpark]_vars

-----------------------------------------------------------------------------
(* Properties of get_spark_name, checked under SpecSpark *)

SameBase(a, b) == a \div 100 = b \div 100

InUniqueRange(id) == 10000000 <= id /\ id < 20000000
InSkillRange(id) == 2000000 <= id /\ id < 3000000

\* a name comes from one of the three decoded tiers (unique-skill, skill, race)
DecodedTierYields(d, id) ==
    \/ Truthy(UniqueSparkTier(d, id))
    \/ Truthy(SkillSparkTier(d, id))
    \/ Truthy(RaceSparkTier(d, id))

\* C4 as claimed: two trait IDs that differ only in their final two digits
\* get the same result from get_spark_name, whichever tier produces it.
C4_StarLevelInvariance ==
    fn = "get_spark_name" =>
        \A b \in SparkIds : SameBase(arg, b) => get_spark_name(data, b) = ret

\* C4 amended: for two trait IDs that differ only in their final two digits,
\* the unique-skill, skill and race tiers give the same result, and
\* get_spark_name returns the same name whenever one of these tiers produces
\* it (the generic tier is keyed by the full ID, star digits included).
C4_StarLevelInvarianceOfDecodedTiers ==
    fn = "get_spark_name" =>
        \A b \in SparkIds : SameBase(arg, b) =>
            /\ UniqueSparkTier(data, b) = UniqueSparkTier(data, arg)
            /\ SkillSparkTier(data, b) = SkillSparkTier(data, arg)
            /\ RaceSparkTier(data, b) = RaceSparkTier(data, arg)
            /\ (DecodedTierYields(data, arg) => get_spark_name(data, b) = ret)

\* C4 witness: a 3-star unique trait resolved to the unique-skill name that
\* its 1-star sibling also gets, although only the sibling has a generic name
C4_Witness ==
    /\ fn = "get_spark_name" /\ arg = 10060103
    /\ ret = <<"Triumphant Pulse">>
    /\ get_spark_name(data, 10060101) = ret
    /\ GenericSparkTier(data, 10060101) # GenericSparkTier(data, 10060103)

C6_OutfitVariantSeparation ==
    (fn = "get_spark_name" /\ InUniqueRange(arg)) =>
        LET Middle(id) == (id \div 1000) % 1000
            Variant(id) == (id \div 100) % 10
            Sid(id) == IF Variant(id) = 2 THEN 110001 + Middle(id)
                       ELSE 100001 + Middle(id)
        IN  /\ UniqueSkillId(arg) = Sid(arg)
            /\ UniqueSparkTier(data, arg) = get_skill_name(data, Sid(arg))
            /\ \A b \in SparkIds :
                   (InUniqueRange(b) /\ Middle(b) = Middle(arg)
                       /\ Variant(arg) = 1 /\ Variant(b) = 2) =>
                       /\ UniqueSkillId(b) # UniqueSkillId(arg)
                       /\ (Truthy(get_skill_name(data, Sid(arg)))
                             /\ Truthy(get_skill_name(data, Sid(b)))
                             /\ get_skill_name(data, Sid(arg))
                                  # get_skill_name(data, Sid(b))) =>
                              /\ ret = get_skill_name(data, Sid(arg))
                              /\ get_spark_name(data, b) = get_skill_name(data, Sid(b))
                              /\ get_spark_name(data, b) # ret

\* C6 witness: the base-outfit trait resolved to one name while the
\* alternate-outfit trait of the same character resolves to another
C6_Witness ==
    /\ fn = "get_spark_name" /\ arg = 10060101
    /\ ret = <<"Triumphant Pulse">>
    /\ get_spark_name(data, 10060201) = <<"Festive Miracle">>

FirstTruthy(names) ==
    LET hits == {i \in 1..Len(names) : Truthy(names[i])}
    IN  IF hits = {} THEN None ELSE names[Min(hits)]

\* C7: get_spark_name returns the name of the first tier, in the order
\* unique-skill, skill, race, generic, that yields one; a tier that yields
\* none does not stop the search; the result is None exactly when no tier
\* yields a name.
C7_FirstMatchWins ==
    fn = "get_spark_name" =>
        LET tiers == <<UniqueSparkTier(data, arg), SkillSparkTier(data, arg),
                       RaceSparkTier(data, arg), GenericSparkTier(data, arg)>>
        IN  /\ ret = FirstTruthy(tiers)
            /\ (ret = None) <=> (\A i \in 1..4 : ~Truthy(tiers[i]))

\* C7 witness: a skill trait whose group has no name fell through the skill
\* tier and was resolved by the race tier, ahead of its generic name
C7_Witness ==
    /\ fn = "get_spark_name" /\ arg = 2004901
    /\ SkillSparkTier(data, arg) = None
    /\ Truthy(GenericSparkTier(data, arg))
    /\ ret = <<"Satsuki Sho">>

-----------------------------------------------------------------------------
(* Table snapshots for the name chains (skill names, character names) *)

\* a character entry: absent, or a name list and, when asked, an outfit label
\* for card 100101.  names: "pair" = [JP, EN], "noen" = [JP, ""],
\* "single" = [JP], "none" = [], "nokey" = no "name" field
UmaEntry(k, o, jp, en, label) ==
    IF o.names = "absent" THEN EmptyDict
    ELSE k :> ((IF o.names = "pair" THEN "name" :> << <<jp>>, <<en>> >>
                ELSE IF o.names = "noen" THEN "name" :> << <<jp>>, <<>> >>
                ELSE IF o.names = "single" THEN "name" :> << <<jp>> >>
                ELSE IF o.names = "none" THEN "name" :> <<>>
                ELSE EmptyDict)
               @@ (IF o.outfit
                   THEN "outfits" :> (Str(100101) :> <<label>>)
                   ELSE IF o.names = "nokey" THEN EmptyDict
                   ELSE "outfits" :> EmptyDict))

NamesData(c) ==
    [skills_global |-> NameEntry(Str(100061), c.g100061),
     skills_jp |-> JpEntry(Str(100061), c.j100061),
     skill_data |-> EmptyDict,
     umas_global |->
         UmaEntry(Str(1001), c.ug1001, "Supesharu Uiku", "Special Week",
                  "[Special Dreamer]"),
     umas_full |->
         UmaEntry(Str(1001), c.uf1001, "JP Special Week", "Special Week (full)",
                  "[JP Dreamer]")
         @@ (Str(1002) :> [name |-> << <<"JP Silence">>, <<"Silence Suzuka">> >>,
                           outfits |-> (Str(100201) :> <<"[Innocent Silence]">>)]),
     sparknames |-> EmptyDict,
     racenames |-> EmptyDict,
     outfitnames |-> EmptyDict,
     supportcardnames |-> EmptyDict,
     racetitles |-> EmptyDict,
     nicknames |-> EmptyDict]

UmaOptions ==
    [names : {"absent", "pair", "noen", "single", "none", "nokey"},
     outfit : BOOLEAN]

\* the two skill-name tables vary
SkillNameChoices ==
    [g100061 : {"absent", "notalist", "emptylist", "empty", "Triumphant Pulse"},
     j100061 : {"absent", "notalist", "short", "Victory Pulse"},
     ug1001 : {[names |-> "pair", outfit |-> TRUE]},
     uf1001 : {[names |-> "pair", outfit |-> TRUE]}]

\* the two character tables vary
CharaChoices ==
    [g100061 : {"Triumphant Pulse"}, j100061 : {"Victory Pulse"},
     ug1001 : UmaOptions, uf1001 : UmaOptions]

NameSnapshots ==
    {NamesData(c) : c \in SkillNameChoices \cup CharaChoices} \cup {EmptyDict}

SkillIds == {100061, 110061, 200491}

CardIds == {100101, 100102, 100201, 100301}

GetSkillName ==
    \E skill_id \in SkillIds :
        /\ fn = ""
        /\ fn' = "get_skill_name"
        /\ arg' = skill_id
        /\ ret' = get_skill_name(data, skill_id)
        /\ exc' = ""
        /\ UNCHANGED <<batch, data, char, before, usedData, runs>>

GetCharaInfo ==
    \E card_id \in CardIds :
        /\ fn = ""
        /\ fn' = "get_chara_info"
        /\ arg' = card_id
        /\ IF get_chara_info_raises(data, card_id)
           THEN exc' = "IndexError" /\ ret' = EmptyDict
           ELSE exc' = "" /\ ret' = get_chara_info(data, card_id)
        /\ UNCHANGED <<batch, data, char, before, usedData, runs>>

InitNames ==
    /\ NoBatch
    /\ data \in NameSnapshots
    /\ NoRecord
    /\ fn = "" /\ arg = 0 /\ ret = None

NextNames == GetSkillName \/ GetCharaInfo

SpecNames == InitNames /\ [][NextNames]_vars

-----------------------------------------------------------------------------
(* Properties of the name chains, checked under SpecNames *)

\* C8: get_skill_name returns the first element of the primary entry
\* whenever the primary table holds a non-empty list for the ID; only when
\* the primary misses, the second element of a secondary entry that is a
\* list of at least two elements; None when both miss.
C8_SkillNameChain ==
    fn = "get_skill_name" =>
        LET k == Str(arg)
            primary == DictGet(data, "skills_global", EmptyDict)
            secondary == DictGet(data, "skills_jp", EmptyDict)
            primaryHit == HasKey(primary, k) /\ primary[k].isList
                          /\ primary[k].items # <<>>
            secondaryHit == HasKey(secondary, k) /\ secondary[k].isList
                            /\ Len(secondary[k].items) >= 2
        IN  /\ primaryHit => ret = Head(primary[k].items)
            /\ (~primaryHit /\ secondaryHit) => ret = secondary[k].items[2]
            /\ (~primaryHit /\ ~secondaryHit) => ret = None

\* C8 witness: both tables hold a name for the skill and the official one
\* was returned
C8_Witness ==
    /\ fn = "get_skill_name" /\ arg = 100061
    /\ HasKey(DictGet(data, "skills_jp", EmptyDict), Str(100061))
    /\ data.skills_jp[Str(100061)] = ListEntry(<< <<"JP">>, <<"Victory Pulse">> >>)
    /\ ret = <<"Triumphant Pulse">>

\* the outfit label a source supplies for card_id, if any
HasLabel(umas, card_id) ==
    /\ HasKey(umas, Str(card_id \div 100))
    /\ HasKey(DictGet(umas[Str(card_id \div 100)], "outfits", EmptyDict), Str(card_id))

LabelOf(umas, card_id) == umas[Str(card_id \div 100)].outfits[Str(card_id)]

\* C9: the outfit label is merged field by field: taken from the primary
\* source when it supplies one, otherwise from the secondary source when
\* that supplies one (also when the primary does have the character).
C9_FieldByFieldMerge ==
    (fn = "get_chara_info" /\ exc = "") =>
        LET primary == DictGet(data, "umas_global", EmptyDict)
            secondary == DictGet(data, "umas_full", EmptyDict)
        IN  /\ HasLabel(primary, arg) =>
                   /\ HasKey(ret, "costume_name_en")
                   /\ ret["costume_name_en"] = LabelOf(primary, arg)
            /\ (~HasLabel(primary, arg) /\ HasLabel(secondary, arg)) =>
                   /\ HasKey(ret, "costume_name_en")
                   /\ ret["costume_name_en"] = LabelOf(secondary, arg)

-----------------------------------------------------------------------------
(* Condition strings for the parser *)

CondKeys ==
    {"always", "phase", "distance_rate", "order", "order_rate", "running_style",
     "corner", "is_lastspurt", "is_finalcorner", "hp_per", "activate_count_heal",
     "ground_type", "distance_type", "corner_random", "accumulatetime"}

CondValues == {<<"1">>, <<"0">>, <<"7", "0">>, <<"x">>}

OperatorSet == {Operators[i] : i \in 1..Len(Operators)}

\* key op value, for every key, operator and value
Clauses == {<<k>> \o op \o v : k \in CondKeys, op \in OperatorSet, v \in CondValues}

\* clauses that are combined with "&"; some hold blanks, no operator or nothing
JoinedClauses ==
    {<<"always">> \o EQ \o <<"1">>,
     <<"always">> \o EQEQ \o <<"1">>,
     <<" ", "always", " ">> \o EQ \o <<" ", "1", " ">>,
     <<"phase">> \o EQEQ \o <<"2">>,
     <<"is_lastspurt">> \o EQ \o <<"1">>,
     <<"order_rate">> \o GE \o <<"7", "0">>,
     <<"order_rate">> \o GE \o <<"x">>,
     <<"all_corner_random">> \o EQEQ \o <<"1">>,
     <<"accumulatetime">> \o GE \o <<"5">>,
     <<"is_finalcorner">>,
     <<"always">>,
     <<" ">>,
     <<>>}

Conditions ==
    Clauses \cup JoinedClauses
    \cup {a \o <<"&">> \o b : a, b \in JoinedClauses}

ParseCondition ==
    \E condition \in Conditions :
        /\ fn = ""
        /\ fn' = "parse_condition"
        /\ arg' = condition
        /\ IF parse_condition(condition) = ValueError
           THEN exc' = "ValueError" /\ ret' = None
           ELSE exc' = "" /\ ret' = parse_condition(condition)
        /\ UNCHANGED <<batch, data, char, before, usedData, runs>>

InitCond ==
    /\ NoBatch
    /\ data = EmptyDict
    /\ NoRecord
    /\ fn = "" /\ arg = <<>> /\ ret = None

NextCond == ParseCondition

SpecCond == InitCond /\ [][NextCond]_vars


-----------------------------------------------------------------------------
(* Properties of parse_condition, checked under SpecCond *)

\* the stripped, non-empty terms of a condition
NonEmptyTerms(condition) ==
    LET terms == SplitAmp(condition)
    IN  SelectSeq([i \in 1..Len(terms) |-> Strip(terms[i])], LAMBDA t : t # <<>>)

\* the first operator, in the parser's order, that occurs in term (0: none)
FirstOperator(term) ==
    LET found == {i \in 1..Len(Operators) : Find(term, Operators[i]) # 0}
    IN  IF found = {} THEN 0 ELSE Min(found)

\* term is a clause whose key is "always"
IsAlwaysClause(term) ==
    /\ FirstOperator(term) # 0
    /\ KeyOf(term, Operators[FirstOperator(term)]) = <<"always">>

\* C10: a clause whose key is "always" contributes no text: the output is
\* the " & "-joined rendering of the other clauses, and "Always" when every
\* clause has the key "always".
C10_AlwaysDropped ==
    (fn = "parse_condition" /\ exc = "") =>
        LET others == SelectSeq(NonEmptyTerms(arg), LAMBDA t : ~IsAlwaysClause(t))
            parts == [i \in 1..Len(others) |-> RenderTerm(others[i])]
        IN  ret = IF Len(parts) > 0 THEN JoinAmp(parts) ELSE <<"Always">>

-----------------------------------------------------------------------------
(* Table snapshots and records for enrich_character *)

\* "phase==2&is_lastspurt=1"
CondLastSpurt == <<"phase", "=", "=", "2", "&", "is_lastspurt", "=", "1">>

\* "order_rate>=x": int("x") raises ValueError
CondBadNumber == <<"order_rate", ">", "=", "x">>

Alt(condition, base_duration, effects) ==
    [condition |-> condition, baseDuration |-> base_duration, effects |-> effects]

\* the bundled tables: 200492 has no alternatives, 100061 no duration,
\* 200493 a condition that does not parse, 200494 an empty definition;
\* character 1003 has an empty name list
FullData ==
    [skills_global |->
         NameEntry(Str(200491), "Nimble Navigator")
         @@ NameEntry(Str(200492), "No Stopping Me!")
         @@ NameEntry(Str(100061), "Triumphant Pulse"),
     skills_jp |-> JpEntry(Str(200493), "Slight Detour"),
     skill_data |->
         (Str(200491) :>
              [rarity |-> 1,
               alternatives |->
                   << Alt(CondLastSpurt, 24000, << [type |-> 27, modifier |-> 1500] >>) >>])
         @@ (Str(200492) :> [rarity |-> 4, alternatives |-> <<>>])
         @@ (Str(100061) :>
              [rarity |-> 6,
               alternatives |->
                   << Alt(<<>>, 0, << [type |-> 9, modifier |-> 550] >>) >>])
         @@ (Str(200493) :>
              [rarity |-> 2,
               alternatives |->
                   << Alt(CondBadNumber, 18000, << [type |-> 31, modifier |-> 2000] >>) >>])
         @@ (Str(200494) :> EmptyDict),
     umas_global |->
         Str(1001) :> [name |-> << <<"Supesharu Uiku">>, <<"Special Week">> >>,
                       outfits |-> (Str(100101) :> <<"[Special Dreamer]">>)],
     umas_full |->
         (Str(1002) :> [name |-> << <<"JP Silence">>, <<"Silence Suzuka">> >>,
                        outfits |-> (Str(100201) :> <<"[Innocent Silence]">>)])
         @@ (Str(1003) :> [name |-> <<>>, outfits |-> EmptyDict]),
     sparknames |->
         (Str(101) :> <<"Speed">>) @@ (Str(102) :> <<"Speed">>)
         @@ (Str(3000100) :> <<"URA Finale">>),
     racenames |-> Str(1012) :> <<"Japanese Derby">>,
     outfitnames |-> Str(901006) :> <<"Starting Future">>,
     supportcardnames |->
         (Str(30001) :> [name |-> <<"Kitasan Black">>, title |-> <<"[Fire at My Heels]">>,
                         chara |-> <<"Kitasan Black">>])
         @@ (Str(10002) :> [name |-> <<"Special Week">>]),
     racetitles |-> Str(10) :> <<"Japanese Derby">>,
     nicknames |-> Str(1) :> <<"Wit Bonus">>]

\* the tables after a refresh: names and a definition changed, entries
\* added and removed
RefreshedData ==
    [FullData EXCEPT
        !.skills_global = NameEntry(Str(200491), "Nimble Navigator II")
                          @@ NameEntry(Str(100061), "Triumphant Pulse"),
        !.skill_data = (Str(200491) :>
                            [rarity |-> 4,
                             alternatives |->
                                 << Alt(<<"always", "=", "=", "1">>, 30000,
                                        << [type |-> 27, modifier |-> -1500] >>) >>])
                       @@ (Str(200492) :> [rarity |-> 4, alternatives |-> <<>>]),
        !.umas_global = Str(1001) :> [name |-> << <<"Supesharu Uiku">>, <<"Special Week">> >>,
                                      outfits |-> EmptyDict],
        !.sparknames = Str(101) :> <<"Speed Spark">>,
        !.outfitnames = EmptyDict,
        !.supportcardnames = Str(30001) :> [name |-> <<"Kitasan Black">>],
        !.racetitles = (Str(10) :> <<"Tokyo Yushun">>) @@ (Str(11) :> <<"Arima Kinen">>),
        !.nicknames = EmptyDict]

\* every table file missing: load_json gives {} for each
NoTables == [k \in DOMAIN FullData |-> EmptyDict]

EnrichSnapshots == {FullData, RefreshedData, NoTables, EmptyDict}

\* the fields of an exported record, by group
CardFields == [card_id |-> 100101, race_cloth_id |-> 901006, rank_score |-> 9000]

SkillArrays ==
    { << [skill_id |-> 200491, level |-> 1], [skill_id |-> 100061, level |-> 3] >>,
      << [skill_id |-> 200492, level |-> 2] >>,
      << [skill_id |-> 200491, level |-> 1], [skill_id |-> 200493, level |-> 1],
         [skill_id |-> 100061, level |-> 1] >>,
      << [level |-> 1], [skill_id |-> 200494, level |-> 1],
         [skill_id |-> 999999, level |-> 1] >>,
      <<>> }

FactorFields ==
    { [factor_id_array |-> <<10060101, 2004903, 101, 3000100, 1001202>>,
       factor_info_array |-> << [factor_id |-> 10060103, level |-> 2],
                                [factor_id |-> 102, level |-> 1] >>],
      [factor_id_array |-> <<>>, factor_info_array |-> << [level |-> 1] >>],
      [factor_id_array |-> <<102, 2004902>>, factor_info_array |-> <<>>],
      [factor_id_array |-> <<2004904, 10060110, 7, 2, 1001299, 2004913>>,
       factor_info_array |-> <<>>] }

WinFields ==
    { [win_saddle_id_array |-> <<10, 11>>, nickname_id_array |-> <<1, 99>>],
      [win_saddle_id_array |-> <<>>, nickname_id_array |-> <<>>] }

SupportLists ==
    { << [support_card_id |-> 30001, position |-> 1],
         [support_card_id |-> 10002, position |-> 2],
         [support_card_id |-> 90003, position |-> 3],
         [position |-> 6] >>,
      <<>> }

\* parents: with and without card_id, with records nested one level deeper,
\* and one whose character has an empty name list
SuccessionArrays ==
    { << [card_id |-> 100201, position_id |-> 10,
          factor_info_array |-> << [factor_id |-> 10060201, level |-> 1],
                                   [factor_id |-> 2004901, level |-> 1],
                                   [factor_id |-> 3000100, level |-> 1],
                                   [level |-> 1] >>],
         [position_id |-> 20,
          factor_info_array |-> << [factor_id |-> 101, level |-> 1] >>] >>,
      << [card_id |-> 100101, position_id |-> 10,
          skill_array |-> << [skill_id |-> 200491, level |-> 1] >>,
          support_card_list |-> << [support_card_id |-> 30001, position |-> 1] >>,
          succession_chara_array |->
              << [card_id |-> 100201, position_id |-> 11,
                  factor_info_array |-> << [factor_id |-> 101, level |-> 1] >>] >>] >>,
      << [card_id |-> 100201, position_id |-> 10],
         [card_id |-> 100301, position_id |-> 20] >>,
      << [card_id |-> 0, position_id |-> 10,
          factor_info_array |-> << [factor_id |-> 102, level |-> 1] >>] >>,
      <<>> }

BaseSkills ==
    << [skill_id |-> 200491, level |-> 1], [skill_id |-> 100061, level |-> 3] >>

BaseRecord ==
    CardFields
    @@ [skill_array |-> BaseSkills,
        factor_id_array |-> <<10060101, 2004903, 101, 3000100, 1001202>>,
        factor_info_array |-> << [factor_id |-> 10060103, level |-> 2],
                                 [factor_id |-> 102, level |-> 1] >>,
        win_saddle_id_array |-> <<10, 11>>,
        nickname_id_array |-> <<1, 99>>,
        support_card_list |-> << [support_card_id |-> 30001, position |-> 1] >>]

\* exported records: the base record with one group varied, records made of
\* one group only, a record without ids, and the card ids of each source
Records ==
    {BaseRecord, EmptyDict, [rank_score |-> 9000]}
    \cup {[BaseRecord EXCEPT !.card_id = id] : id \in {100201, 100301, 100901}}
    \cup {[BaseRecord EXCEPT !.skill_array = s] : s \in SkillArrays}
    \cup {f @@ BaseRecord : f \in FactorFields \cup WinFields}
    \cup {[BaseRecord EXCEPT !.support_card_list = s] : s \in SupportLists}
    \cup {BaseRecord @@ [succession_chara_array |-> p] : p \in SuccessionArrays}
    \cup {[rank_score |-> 9000, skill_array |-> s] : s \in SkillArrays}
    \cup {[rank_score |-> 9000, succession_chara_array |-> p] : p \in SuccessionArrays}

-----------------------------------------------------------------------------
(* The enrichment run: a record is enriched, the tables may be reloaded,   *)
(* and the record is enriched again                                        *)

MaxRuns == 2

\* enrich_character(char, data) on the record as it is now
EnrichCharacter ==
    /\ runs < MaxRuns
    /\ exc = ""
    /\ \E r \in {enrich_character(char, data)} :
           /\ char' = r.char
           /\ exc' = r.exc
    /\ before' = char
    /\ usedData' = Append(usedData, data)
    /\ runs' = runs + 1
    /\ fn' = "enrich_character"
    /\ UNCHANGED <<batch, data, arg, ret>>

\* load_all_data() between two runs: the tables on disk have changed
LoadAllData ==
    /\ 0 < runs /\ runs < MaxRuns
    /\ exc = ""
    /\ data' \in EnrichSnapshots \ {data}
    /\ UNCHANGED <<batch, char, before, usedData, runs, exc, fn, arg, ret>>

Init ==
    /\ NoBatch
    /\ data \in EnrichSnapshots
    /\ char \in Records
    /\ before = char
    /\ usedData = <<>>
    /\ runs = 0
    /\ exc = ""
    /\ fn = ""
    /\ arg = 0
    /\ ret = None

Next == EnrichCharacter \/ LoadAllData

Spec == Init /\ [][Next]_vars


-----------------------------------------------------------------------------
(* C1-C3: enrich_character on whole records *)

\* the field names enrich_character writes, by the entry it writes them to
CharaNames == {"chara_name_en", "costume_name_en", "card_name_en"}

DerivedNames ==
    [top |-> CharaNames \cup {"race_cloth_name_en", "spark_array_enriched",
                              "win_saddle_array_enriched", "nickname_array_enriched"},
     skill |-> {"skill_name_en", "rarity", "skill_type", "condition", "effects",
                "duration", "summary"},
     factor |-> {"spark_name_en"},
     support |-> {"support_card_name_en", "support_card_title_en",
                  "support_card_chara_en", "support_card_type"},
     parent |-> CharaNames,
     parentSpark |-> {"spark_name_en", "stars"}]

NoNames == [k \in DOMAIN DerivedNames |-> {}]

\* the arrays whose entries enrich_character changes in place
EntryArrays ==
    {"skill_array", "factor_info_array", "support_card_list", "succession_chara_array"}

\* every field of old is in new, with old's value unless its name is exempt
EntryKept(old, new, exempt) ==
    /\ DOMAIN old \subseteq DOMAIN new
    /\ \A k \in DOMAIN old \ exempt : new[k] = old[k]

ArrayKept(old, new, exempt) ==
    /\ Len(new) = Len(old)
    /\ \A i \in 1..Len(old) : EntryKept(old[i], new[i], exempt)

FieldArrayKept(old, new, k, exempt) ==
    HasKey(old, k) => HasKey(new, k) /\ ArrayKept(old[k], new[k], exempt)

ParentKept(old, new, names) ==
    /\ EntryKept(old, new, names.parent \cup {"factor_info_array"})
    /\ FieldArrayKept(old, new, "factor_info_array", names.parentSpark)

\* new keeps every field of old, entry by entry, but for the exempt names
RecordKept(old, new, names) ==
    /\ EntryKept(old, new, names.top \cup EntryArrays)
    /\ FieldArrayKept(old, new, "skill_array", names.skill)
    /\ FieldArrayKept(old, new, "factor_info_array", names.factor)
    /\ FieldArrayKept(old, new, "support_card_list", names.support)
    /\ HasKey(old, "succession_chara_array") =>
           /\ HasKey(new, "succession_chara_array")
           /\ Len(new["succession_chara_array"]) = Len(old["succession_chara_array"])
           /\ \A i \in 1..Len(old["succession_chara_array"]) :
                  ParentKept(old["succession_chara_array"][i],
                             new["succession_chara_array"][i], names)

\* the last two calls used the same tables
SameTables == runs >= 2 /\ usedData[runs] = usedData[runs - 1]

\* C1: enriching a record and then enriching the result again with the same
\* tables leaves the record as the first enrichment made it: the second call
\* raises nothing and changes no field, at top level or in any skill, trait,
\* support-card or parent entry.
C1_Idempotence == SameTables => (exc = "" /\ char = before)

\* a full record enriched twice with the bundled tables: every kind of
\* derived entry is there and the second call changed nothing
C1_Witness ==
    /\ SameTables /\ usedData[runs] = FullData
    /\ char = before
    /\ HasKey(char, "card_name_en") /\ HasKey(char, "spark_array_enriched")
    /\ HasKey(char, "skill_array") /\ Len(char["skill_array"]) > 0
    /\ HasKey(char["skill_array"][1], "summary")
    /\ HasKey(char, "support_card_list") /\ Len(char["support_card_list"]) > 0
    /\ HasKey(char["support_card_list"][1], "support_card_name_en")
    /\ HasKey(char, "succession_chara_array")
    /\ Len(char["succession_chara_array"]) > 0
    /\ HasKey(char["succession_chara_array"][1], "chara_name_en")

\* C2 as stated: after enrich_character every field present before the call,
\* at top level and inside each skill, trait-info, support-card and parent
\* entry, is still present with the same value, whatever the input record.
C2_EveryFieldKeepsItsValue == runs >= 1 => RecordKept(before, char, NoNames)

\* C2, amended: after enrich_character every field present before the call
\* is still present, and every field whose name is not one of the derived
\* field names of its entry keeps its value; the derived names are the only
\* ones written, and a value already there under a derived name is
\* overwritten by the one the current tables give.
C2_AdditiveOutsideDerivedNames == runs >= 1 => RecordKept(before, char, DerivedNames)

\* a record enriched, the tables reloaded, the record enriched again: the
\* derived trait entries changed, the exported fields did not
C2_Witness ==
    /\ runs = 2 /\ exc = "" /\ usedData[1] # usedData[2]
    /\ HasKey(before, "spark_array_enriched")
    /\ char["spark_array_enriched"] # before["spark_array_enriched"]
    /\ HasKey(before, "rank_score") /\ char["rank_score"] = before["rank_score"]
    /\ HasKey(before, "skill_array") /\ Len(before["skill_array"]) > 0
    /\ HasKey(before["skill_array"][1], "skill_name_en")
    /\ char["skill_array"][1]["skill_name_en"] # before["skill_array"][1]["skill_name_en"]
    /\ char["skill_array"][1]["skill_id"] = before["skill_array"][1]["skill_id"]

\* the Text-valued derived fields of an entry that are there are not None
\* ("effects" is always a list and "stars" always an integer)
NoneFree(entry, names) == \A k \in DOMAIN entry \cap names : entry[k] # None

ArrayNoneFree(c, k, names) ==
    HasKey(c, k) => \A i \in 1..Len(c[k]) : NoneFree(c[k][i], names)

\* C3 as stated: after enrich_character no derived field is present with a
\* null value; a skill whose definition has no alternatives, or whose first
\* alternative has base duration 0, lacks the fields that cannot be computed.
C3_UnresolvedOmitted ==
    runs >= 1 =>
        /\ NoneFree(char, CharaNames \cup {"race_cloth_name_en"})
        /\ ArrayNoneFree(char, "skill_array", DerivedNames.skill \ {"effects"})
        /\ ArrayNoneFree(char, "spark_array_enriched", {"spark_name_en"})
        /\ ArrayNoneFree(char, "factor_info_array", {"spark_name_en"})
        /\ ArrayNoneFree(char, "win_saddle_array_enriched", {"race_name_en"})
        /\ ArrayNoneFree(char, "nickname_array_enriched", {"nickname_name_en"})
        /\ ArrayNoneFree(char, "support_card_list", DerivedNames.support)
        /\ ArrayNoneFree(char, "succession_chara_array", CharaNames)

-----------------------------------------------------------------------------
(* C11-C12: splitting and shape of parse_condition, checked under SpecCond *)

\* what one split of term at the first operator that occurs in it, in the
\* parser's order, renders: the title-cased term when no operator occurs,
\* nothing (ContinueOps) for the key "always"
SingleSplit(term) ==
    IF FirstOperator(term) = 0 THEN Title(term)
    ELSE RenderClause(KeyOf(term, Operators[FirstOperator(term)]),
                      Operators[FirstOperator(term)],
                      ValueOf(term, Operators[FirstOperator(term)]))

\* C11: every clause is split once, at the first operator in the order
\* >=, <=, ==, !=, >, <, = that occurs in it, and is rendered once from
\* that split (a clause without operator as its title-cased token); the
\* output is made of these renderings and of nothing else, so no clause is
\* split again at a one-character part of a two-character operator.
C11_SplitAtFirstOperator ==
    (fn = "parse_condition" /\ exc = "") =>
        LET terms == NonEmptyTerms(arg)
            parts == SelectSeq([i \in 1..Len(terms) |-> SingleSplit(terms[i])],
                               LAMBDA p : p # ContinueOps)
        IN  ret = IF Len(parts) > 0 THEN JoinAmp(parts) ELSE <<"Always">>

\* "order_rate>=N" for the numeric values N of the condition strings
BackClause(value) == <<"order_rate">> \o GE \o value

-----------------------------------------------------------------------------
(* Calls of get_skill_type and format_effect on effects as the skill       *)
(* definitions hold them                                                   *)

\* effect types: every type with a format of its own (stat boosts, 9, 10,
\* the speed types, 31), known types without one, unknown codes
EffectTypes == {0, 1, 3, 5, 9, 10, 14, 21, 22, 27, 28, 31, 42, 6, 99}

\* modifiers: negative, zero, small, and values whose quotient by 100 or
\* 10000 has to be rounded (to even, up and down)
Modifiers == {-1500, -50, 0, 5, 50, 150, 250, 2000, 12345, 1500, 125, 375, 20049}

\* an effect with both fields, or with one of them or both missing
Effects ==
    [type : EffectTypes, modifier : Modifiers]
    \cup {[type |-> t] : t \in {9, 27, 99}}
    \cup {[modifier |-> m] : m \in {-50, 5}}
    \cup {EmptyDict}

\* the effect lists classified: no effect, one, or two of these
ClassifiedEffects ==
    {[type |-> 1, modifier |-> 40], [type |-> 5, modifier |-> -20],
     [type |-> 27, modifier |-> 1500], [type |-> 27, modifier |-> -1500],
     [modifier |-> -50], [type |-> 9], EmptyDict}

EffectLists ==
    {<<>>} \cup {<<e>> : e \in ClassifiedEffects}
    \cup {<<e, f>> : e, f \in ClassifiedEffects}

\* skill ids: unique and inherited prefixes, the same prefixes with five and
\* seven digits, and other six-digit ids
TypedSkillIds == {100061, 110061, 900061, 910061, 200601, 120061, 10006, 1000611, 9000611}

GetSkillType ==
    \E skill_id \in TypedSkillIds, effects \in EffectLists :
        /\ fn = ""
        /\ fn' = "get_skill_type"
        /\ arg' = <<skill_id, effects>>
        /\ ret' = get_skill_type(skill_id, effects)
        /\ UNCHANGED <<batch, data, char, before, usedData, runs, exc>>

FormatEffect ==
    \E effect \in Effects :
        /\ fn = ""
        /\ fn' = "format_effect"
        /\ arg' = effect
        /\ ret' = format_effect(effect)
        /\ UNCHANGED <<batch, data, char, before, usedData, runs, exc>>

InitSkill ==
    /\ NoBatch
    /\ data = EmptyDict
    /\ NoRecord
    /\ fn = "" /\ arg = 0 /\ ret = None

NextSkill == GetSkillType \/ FormatEffect

SpecSkill == InitSkill /\ [][NextSkill]_vars

\* the id has six decimal digits of which the first two are in prefixes
SixDigitsWithPrefix(skill_id, prefixes) ==
    /\ 100000 <= skill_id /\ skill_id <= 999999
    /\ skill_id \div 10000 \in prefixes

\* C13: get_skill_type gives "green" if an effect has a type in 1..5; else
\* "blue" if an effect has a negative modifier; else "unique" for a 6-digit
\* id starting 10 or 11; else "inherited" for a 6-digit id starting 90 or 91;
\* else None.  A list with a stat boost and a negative modifier is "green",
\* also for a unique-skill id.
C13_ClassificationPrecedence ==
    fn = "get_skill_type" =>
        LET skill_id == arg[1]
            effects == arg[2]
            StatBoost == \E i \in 1..Len(effects) :
                             HasKey(effects[i], "type") /\ effects[i]["type"] \in 1..5
            Debuff == \E i \in 1..Len(effects) :
                          HasKey(effects[i], "modifier") /\ effects[i]["modifier"] < 0
        IN  ret = IF StatBoost THEN <<"green">>
                  ELSE IF Debuff THEN <<"blue">>
                  ELSE IF SixDigitsWithPrefix(skill_id, {10, 11}) THEN <<"unique">>
                  ELSE IF SixDigitsWithPrefix(skill_id, {90, 91}) THEN <<"inherited">>
                  ELSE None

\* C13 witness: a unique-skill id whose effects hold a stat boost and a
\* negative modifier was classified "green"
C13_Witness ==
    /\ fn = "get_skill_type"
    /\ arg = <<100061, <<[type |-> 1, modifier |-> 40], [type |-> 27, modifier |-> -1500]>> >>
    /\ ret = <<"green">>

\* text is an unsigned decimal numeral with exactly `decimals` digits after
\* the point (no point when decimals = 0) and no superfluous leading zero
IsFixedNumeral(text, decimals) ==
    LET intLen == IF decimals = 0 THEN Len(text) ELSE Len(text) - decimals - 1
    IN  /\ intLen >= 1
        /\ \A i \in 1..Len(text) :
               IF decimals > 0 /\ i = intLen + 1 THEN text[i] = "."
               ELSE IsDigit(text[i])
        /\ (intLen > 1 => text[1] # "0")

\* the digits of a numeral read as one natural number (the point dropped)
NumeralDigits(text, decimals) ==
    IF decimals = 0 THEN IntNat(text)
    ELSE IntNat(SubSeq(text, 1, Len(text) - decimals - 1)) * Pow10(decimals)
         + IntNat(SubSeq(text, Len(text) - decimals + 1, Len(text)))

\* text shows modifier / div with exactly `decimals` decimals: it carries the
\* sign of the modifier and a numeral no further from the quotient than half
\* a unit of its last place
ShowsQuotient(text, modifier, div, decimals) ==
    LET negative == Len(text) > 0 /\ text[1] = "-"
        numeral == IF negative THEN Tail(text) ELSE text
        unit == div \div Pow10(decimals)
        a == IF modifier < 0 THEN 0 - modifier ELSE modifier
        shown == NumeralDigits(numeral, decimals) * unit
    IN  /\ negative <=> modifier < 0
        /\ IsFixedNumeral(numeral, decimals)
        /\ 2 * shown <= 2 * a + unit
        /\ 2 * a <= 2 * shown + unit

\* C14: format_effect renders types 1-5 as label + raw modifier; type 9 as
\* "Recover N% Stamina", N the whole percent modifier/100; types 21, 22, 27
\* as label + modifier/10000 with exactly 2 decimals + "m/s"; type 31 as
\* label + modifier/10000 with exactly 4 decimals; type 10 as
\* "Start Delay x{modifier}"; every other type as "{label} ({modifier})",
\* the label of an unknown code being "Effect {code}".  (9, 2000) gives
\* "Recover 20% Stamina", (1, 5) "Speed +5", (31, 12345) "Acceleration +1.2345".
C14_EffectFormats ==
    (fn = "format_effect" /\ HasKey(arg, "type") /\ HasKey(arg, "modifier")) =>
        LET etype == arg["type"]
            modifier == arg["modifier"]
            label == IF etype \in KnownEffectTypes THEN <<EffectLabel(etype)>>
                     ELSE <<"Effect ">> \o Str(etype)
            last == Len(ret)
        IN  /\ etype \in 1..5 => ret = label \o Str(modifier)
            /\ etype = 9 =>
                   /\ last >= 3 /\ ret[1] = "Recover " /\ ret[last] = "% Stamina"
                   /\ ShowsQuotient(SubSeq(ret, 2, last - 1), modifier, 100, 0)
            /\ etype \in {21, 22, 27} =>
                   /\ last >= 3 /\ <<ret[1]>> = label /\ ret[last] = "m/s"
                   /\ ShowsQuotient(SubSeq(ret, 2, last - 1), modifier, 10000, 2)
            /\ etype = 31 =>
                   /\ last >= 2 /\ <<ret[1]>> = label
                   /\ ShowsQuotient(Tail(ret), modifier, 10000, 4)
            /\ etype = 10 => ret = <<"Start Delay x">> \o Str(modifier)
            /\ etype \notin (1..5) \cup {9, 10, 21, 22, 27, 31} =>
                   ret = label \o <<" (">> \o Str(modifier) \o <<")">>
            /\ (etype = 9 /\ modifier = 2000) =>
                   ret = <<"Recover ", "2", "0", "% Stamina">>
            /\ (etype = 1 /\ modifier = 5) => ret = <<"Speed +", "5">>
            /\ (etype = 31 /\ modifier = 12345) =>
                   ret = <<"Acceleration +", "1", ".", "2", "3", "4", "5">>

\* C14 witness: an acceleration effect was formatted with four decimals
C14_Witness ==
    /\ fn = "format_effect"
    /\ arg = [type |-> 31, modifier |-> 12345]
    /\ ret = <<"Acceleration +", "1", ".", "2", "3", "4", "5">>

\* the record without one of its fields
Without(c, k) == [f \in DOMAIN c \ {k} |-> c[f]]

\* C15: for every id of factor_id_array the enriched entry carries
\* stars = id mod 100 exactly when that value is 1, 2 or 3, whether or not
\* the name resolved; otherwise it has no stars field; and a run raises only
\* if it raises as well on the record without its factor_id_array.
C15_StarLevel ==
    fn = "enrich_character" =>
        LET ids == IF HasKey(before, "factor_id_array")
                   THEN before["factor_id_array"] ELSE <<>>
        IN  /\ (exc = "" /\ Len(ids) > 0) =>
                   /\ HasKey(char, "spark_array_enriched")
                   /\ Len(char["spark_array_enriched"]) = Len(ids)
                   /\ \A i \in 1..Len(ids) :
                          LET entry == char["spark_array_enriched"][i]
                          IN  /\ entry["spark_id"] = ids[i]
                              /\ HasKey(entry, "stars") <=> ids[i] % 100 \in 1..3
                              /\ HasKey(entry, "stars") => entry["stars"] = ids[i] % 100
            /\ exc # "" =>
                   enrich_character(Without(before, "factor_id_array"),
                                    usedData[runs]).exc = exc

\* C15 witness: a run gave stars to an entry whose name did not resolve and
\* none to an entry whose last two digits are above 3
C15_Witness ==
    /\ fn = "enrich_character" /\ exc = ""
    /\ HasKey(char, "spark_array_enriched")
    /\ \E i, j \in 1..Len(char["spark_array_enriched"]) :
           LET e == char["spark_array_enriched"][i]
               f == char["spark_array_enriched"][j]
           IN  /\ HasKey(e, "stars") /\ ~HasKey(e, "spark_name_en")
               /\ ~HasKey(f, "stars") /\ f["spark_id"] % 100 > 3
                  /\ HasKey(f, "spark_name_en")

-----------------------------------------------------------------------------
(* Calls of every resolver against loaded, partly loaded and empty tables  *)

\* load_all_data with DATA_DIR missing ({}), with every file missing, with
\* only some tables in the mapping, and with the files there
\* a skill_data table with one definition per rarity tier and per
\* classification: resolved by effect, by id prefix, and unresolved
SkillTierData ==
    [skill_data |->
         (Str(200512) :>
              [rarity |-> 5,
               alternatives |-> << Alt(<<>>, 0, << [type |-> 27, modifier |-> 3500] >>) >>])
         @@ (Str(300011) :>
              [rarity |-> 6,
               alternatives |-> << Alt(<<>>, 50000, << [type |-> 31, modifier |-> 4000] >>) >>])
         @@ (Str(900061) :>
              [rarity |-> 1,
               alternatives |-> << Alt(<<>>, 0, << [type |-> 9, modifier |-> 350] >>) >>])
         @@ (Str(200531) :>
              [rarity |-> 3,
               alternatives |-> << Alt(<<>>, 0, << [type |-> 1, modifier |-> 400000] >>) >>])
         @@ (Str(200541) :>
              [rarity |-> 2,
               alternatives |-> << Alt(<<>>, 30000, << [type |-> 27, modifier |-> -1000] >>) >>])
         @@ (Str(200551) :>
              [alternatives |-> << Alt(<<>>, 0, <<>>) >>])
         @@ (Str(200561) :>
              [rarity |-> 7,
               alternatives |-> << Alt(<<>>, 0, << [type |-> 21, modifier |-> 1500] >>) >>])
         @@ (Str(100071) :> [rarity |-> 4, alternatives |-> <<>>])]

LookupSnapshots ==
    EnrichSnapshots
    \cup {[k \in {"skills_global", "skill_data", "racenames"} |-> EmptyDict]}
    \cup {SkillTierData}

LookupIds ==
    {0, 1, 10, 99, 10002, 30001, 40001, 50002, 60003, 70004, 80005, 90003,
     100061, 200491, 200493, 901006, 999999,
     200512, 300011, 900061, 200531, 200541, 200551, 200561, 100071}

GetSkillDetails ==
    \E skill_id \in LookupIds :
        /\ fn = ""
        /\ fn' = "get_skill_details"
        /\ arg' = skill_id
        /\ IF get_skill_details_raises(data, skill_id)
           THEN exc' = "ValueError" /\ ret' = EmptyDict
           ELSE exc' = "" /\ ret' = get_skill_details(data, skill_id)
        /\ UNCHANGED <<batch, data, char, before, usedData, runs>>

GetRaceTitleName ==
    \E saddle_id \in LookupIds :
        /\ fn = ""
        /\ fn' = "get_race_title_name"
        /\ arg' = saddle_id
        /\ ret' = get_race_title_name(data, saddle_id)
        /\ UNCHANGED <<batch, data, char, before, usedData, runs, exc>>

GetNicknameName ==
    \E nickname_id \in LookupIds :
        /\ fn = ""
        /\ fn' = "get_nickname_name"
        /\ arg' = nickname_id
        /\ ret' = get_nickname_name(data, nickname_id)
        /\ UNCHANGED <<batch, data, char, before, usedData, runs, exc>>

GetRaceClothName ==
    \E race_cloth_id \in LookupIds :
        /\ fn = ""
        /\ fn' = "get_race_cloth_name"
        /\ arg' = race_cloth_id
        /\ ret' = get_race_cloth_name(data, race_cloth_id)
        /\ UNCHANGED <<batch, data, char, before, usedData, runs, exc>>

GetSupportCardInfo ==
    \E support_card_id \in LookupIds :
        /\ fn = ""
        /\ fn' = "get_support_card_info"
        /\ arg' = support_card_id
        /\ ret' = get_support_card_info(data, support_card_id)
        /\ UNCHANGED <<batch, data, char, before, usedData, runs, exc>>

InitLookup ==
    /\ NoBatch
    /\ data \in LookupSnapshots
    /\ NoRecord
    /\ fn = "" /\ arg = 0 /\ ret = None

NextLookup ==
    \/ GetSkillName
    \/ GetSparkName
    \/ GetSkillDetails
    \/ GetRaceTitleName
    \/ GetNicknameName
    \/ GetRaceClothName
    \/ GetSupportCardInfo
    \/ GetCharaInfo

SpecLookup == InitLookup /\ [][NextLookup]_vars

\* every table of the mapping is empty (none at all in an empty mapping)
AllTablesEmpty(d) == \A k \in DOMAIN d : d[k] = EmptyDict

NameLookups ==
    {"get_skill_name", "get_spark_name", "get_race_title_name",
     "get_nickname_name", "get_race_cloth_name"}

\* C16: with every table empty or missing, get_skill_name, get_spark_name,
\* get_race_title_name, get_nickname_name, get_race_cloth_name and
\* get_skill_details (whose None reads as the empty mapping here) return
\* not-found, get_chara_info and get_support_card_info return no name
\* field, and none of them raises.
C16_GracefulDegradation ==
    (fn # "" /\ AllTablesEmpty(data)) =>
        /\ exc = ""
        /\ fn \in NameLookups => ret = None
        /\ fn = "get_skill_details" => ret = EmptyDict
        /\ fn = "get_chara_info" =>
               DOMAIN ret \cap {"chara_name_en", "costume_name_en", "card_name_en"} = {}
        /\ fn = "get_support_card_info" =>
               DOMAIN ret \cap {"support_card_name_en", "support_card_title_en",
                                "support_card_chara_en"} = {}

\* C16 witness: against empty tables a support card got its type, from the
\* first digit of its id, and no name
C16_Witness ==
    /\ fn = "get_support_card_info"
    /\ AllTablesEmpty(data)
    /\ arg = 30001
    /\ DOMAIN ret = {"support_card_type"}

-----------------------------------------------------------------------------
(* enrich_data: one run of the program, from the input file to the exit    *)
(* status.  A file is its kind ("ok"/"array" when it reads as expected) and *)
(* what it holds; an exception no handler catches ends the process with    *)
(* exit status 1 and is kept in exc.                                       *)

\* the keys load_all_data fills
TableNames == DOMAIN FullData

\* json.load(f) cannot decode the bytes: UnicodeDecodeError, which neither
\* handler of load_json catches
load_json_raises(file) == file.kind = "invalid_utf8"

\* the parsed file, or {} after FileNotFoundError / json.JSONDecodeError
load_json(file) == IF file.kind = "ok" THEN file.content ELSE EmptyDict

load_all_data_raises(fs) ==
    fs.data_dir /\ \E t \in TableNames : load_json_raises(fs.tables[t])

load_all_data(fs) ==
    IF ~fs.data_dir THEN EmptyDict
    ELSE [t \in TableNames |-> load_json(fs.tables[t])]

\* data/ with every file as generated, or with one file missing, not JSON,
\* or not UTF-8
DataDirs ==
    {[t \in TableNames |->
          IF t = failing /\ kind # "ok"
          THEN [kind |-> kind, content |-> EmptyDict]
          ELSE [kind |-> "ok", content |-> FullData[t]]] :
        failing \in {"skills_global", "skill_data", "umas_global", "nicknames"},
        kind \in {"ok", "missing", "invalid_json", "invalid_utf8"}}

\* records of a batch: a full record, one whose skill has a condition with a
\* non-numeric order_rate, and one without ids
BatchRecords ==
    {BaseRecord,
     [BaseRecord EXCEPT !.skill_array = << [skill_id |-> 200493, level |-> 1] >>],
     [rank_score |-> 9000]}

MaxBatch == 2

\* the input file: missing, not JSON, not UTF-8, a JSON object, or an array
InputFiles ==
    {[kind |-> k, records |-> <<>>] :
         k \in {"missing", "invalid_json", "invalid_utf8", "object"}}
    \cup {[kind |-> "array", records |-> b] :
              b \in UNION {[1..n -> BatchRecords] : n \in 0..MaxBatch}}

\* open(output_path, "w"): succeeds, or raises PermissionError, or (parent
\* directory missing) FileNotFoundError
OutputPaths == {"writable", "PermissionError", "FileNotFoundError"}

FileSystems ==
    [input : InputFiles, data_dir : {TRUE}, tables : DataDirs, output : OutputPaths]
    \cup [input : InputFiles, data_dir : {FALSE},
          tables : {[t \in TableNames |-> [kind |-> "missing", content |-> EmptyDict]]},
          output : OutputPaths]

Unwritten == [written |-> FALSE, entries |-> <<>>]

\* mutant: the isinstance(characters, list) test is missing
InputLoaded_any_json(file) == file.kind \in {"array", "object"}

\* json.load succeeded and gave a list
InputLoaded(file) == file.kind = "array"

\* lines 672-687: read the input file
LoadInput ==
    /\ pc = "load_input"
    /\ IF InputLoaded(files.input)
       THEN /\ characters' = files.input.records
            /\ pc' = "load_tables"
            /\ UNCHANGED <<exc, exit_code>>
       ELSE /\ pc' = "exit"
            /\ exit_code' = 1
            /\ exc' = IF files.input.kind = "invalid_utf8"
                      THEN "UnicodeDecodeError" ELSE ""
            /\ UNCHANGED characters
    /\ UNCHANGED <<data, char, before, usedData, runs, fn, arg, ret, files, output>>

\* lines 689-693: data = load_all_data()
LoadTables ==
    /\ pc = "load_tables"
    /\ IF load_all_data_raises(files)
       THEN /\ exc' = "UnicodeDecodeError"
            /\ pc' = "exit"
            /\ exit_code' = 1
            /\ UNCHANGED data
       ELSE /\ data' = load_all_data(files)
            /\ pc' = "enrich"
            /\ UNCHANGED <<exc, exit_code>>
    /\ UNCHANGED <<char, before, usedData, runs, fn, arg, ret, files, characters, output>>

\* lines 700-702: one iteration of "for char in characters"; an exception
\* of enrich_character leaves the loop and the function
EnrichNext ==
    /\ pc = "enrich"
    /\ runs < Len(characters)
    /\ \E r \in {enrich_character(characters[runs + 1], data)} :
           /\ characters' = [characters EXCEPT ![runs + 1] = r.char]
           /\ exc' = r.exc
           /\ IF r.exc = ""
              THEN UNCHANGED <<pc, exit_code>>
              ELSE pc' = "exit" /\ exit_code' = 1
    /\ runs' = runs + 1
    /\ UNCHANGED <<data, char, before, usedData, fn, arg, ret, files, output>>

\* lines 712-720: write the output file
Save ==
    /\ pc = "enrich"
    /\ runs = Len(characters)
    /\ IF files.output = "writable"
       THEN /\ output' = [written |-> TRUE, entries |-> characters]
            /\ pc' = "report"
            /\ UNCHANGED <<exc, exit_code>>
       ELSE /\ pc' = "exit"
            /\ exit_code' = 1
            /\ exc' = IF files.output = "PermissionError" THEN "" ELSE files.output
            /\ UNCHANGED output
    /\ UNCHANGED <<data, char, before, usedData, runs, fn, arg, ret, files, characters>>

\* lines 722-769: the sample and the localization check, whose every
\* Exception is caught; enrich_data returns and the process exits with 0
Report ==
    /\ pc = "report"
    /\ pc' = "exit"
    /\ exit_code' = 0
    /\ UNCHANGED <<data, char, before, usedData, runs, exc, fn, arg, ret,
                   files, characters, output>>

InitBatch ==
    /\ data = EmptyDict
    /\ NoRecord
    /\ fn = "" /\ arg = 0 /\ ret = None
    /\ files \in FileSystems
    /\ characters = <<>>
    /\ pc = "load_input"
    /\ output = Unwritten
    /\ exit_code = 0

NextBatch == LoadInput \/ LoadTables \/ EnrichNext \/ Save \/ Report

SpecBatch == InitBatch /\ [][NextBatch]_vars

\* C17: a failure while enriching one record never aborts the batch: with
\* the input an array, the tables readable and the output writable, every
\* record is gone through and the output is written with one entry per
\* input record.
C17_BatchIsolation ==
    (/\ pc = "exit"
     /\ files.input.kind = "array"
     /\ \A t \in TableNames : files.tables[t].kind # "invalid_utf8"
     /\ files.output = "writable") =>
        /\ runs = Len(files.input.records)
        /\ output.written
        /\ Len(output.entries) = Len(files.input.records)

\* C18: when one table file is missing or does not parse as JSON, the run
\* continues past the load with an empty table for that name and every
\* other table as its file holds it (so every lookup in that table misses).
C18_FailedTableIsEmpty ==
    \A t \in TableNames :
        (/\ pc \notin {"", "load_input", "load_tables"}
         /\ files.input.kind = "array"
         /\ files.data_dir
         /\ files.tables[t].kind # "ok") =>
            /\ ~(pc = "exit" /\ exc = "UnicodeDecodeError")
            /\ data = [u \in TableNames |->
                           IF u = t THEN EmptyDict ELSE files.tables[u].content]

\* the part of C18 the code keeps: a file that is missing or raises
\* json.JSONDecodeError
C18_CaughtFailures ==
    \A t \in TableNames :
        (/\ pc \notin {"", "load_input", "load_tables"}
         /\ files.input.kind = "array"
         /\ files.data_dir
         /\ files.tables[t].kind \in {"missing", "invalid_json"}) =>
            /\ ~(pc = "exit" /\ exc = "UnicodeDecodeError")
            /\ data = [u \in TableNames |->
                           IF u = t THEN EmptyDict ELSE files.tables[u].content]

\* C19: enrich_data exits with status 1 when the input file is missing, is
\* not JSON or is not an array, without enriching anything or writing the
\* output; it exits with status 1 when the output cannot be written; and a
\* run whose output was written exits with status 0.
C19_FatalInputOutput ==
    pc = "exit" =>
        /\ files.input.kind \in {"missing", "invalid_json", "object"} =>
               /\ exit_code = 1
               /\ runs = 0 /\ characters = <<>> /\ data = EmptyDict
               /\ ~output.written
        /\ files.output # "writable" => (exit_code = 1 /\ ~output.written)
        /\ output.written => exit_code = 0
        /\ exit_code = 0 =>
               /\ files.input.kind = "array"
               /\ output.written
               /\ Len(output.entries) = Len(files.input.records)

\* C19 witness: two records were enriched, the output path was not
\* writable, and the run ended with status 1
C19_Witness ==
    /\ pc = "exit"
    /\ files.output = "PermissionError"
    /\ Len(characters) = 2 /\ runs = 2 /\ exc = ""
    /\ exit_code = 1

-----------------------------------------------------------------------------
(* C20: the tables and the records hold no structure in common.  Values   *)
(* carry no identity here, so a structure of a table that a record shares  *)
(* shows as a structure of the record equal to it; the empty list and the  *)
(* empty mapping, equal wherever they are built, are left out.             *)

Elems(list) == {list[i] : i \in 1..Len(list)}

\* the entries of one table
Entries(d, table) ==
    LET t == DictGet(d, table, EmptyDict) IN {t[k] : k \in DOMAIN t}

\* the first-alternative lists and the alternatives of the skill definitions
AlternativeLists(d) ==
    {DictGet(e, "alternatives", <<>>) : e \in Entries(d, "skill_data")}

Alternatives(d) == UNION {Elems(l) : l \in AlternativeLists(d)}

EffectListsOf(d) == {DictGet(a, "effects", <<>>) : a \in Alternatives(d)}

\* the lists of mappings the tables hold
TableLists(d) == (AlternativeLists(d) \cup EffectListsOf(d)) \ {<<>>}

\* the mappings with field names the tables hold: skill definitions, their
\* alternatives and effects, character entries, support card entries
TableDicts(d) ==
    (Entries(d, "skill_data") \cup Alternatives(d)
     \cup UNION {Elems(l) : l \in EffectListsOf(d)}
     \cup Entries(d, "umas_global") \cup Entries(d, "umas_full")
     \cup Entries(d, "supportcardnames")) \ {EmptyDict}

ListFields ==
    {"skill_array", "spark_array_enriched", "factor_info_array",
     "win_saddle_array_enriched", "nickname_array_enriched",
     "support_card_list", "succession_chara_array"}

\* the lists of mappings a record (or a parent inside it) holds as fields
ListsOf(c) == {c[f] : f \in ListFields \cap DOMAIN c}

Parents(c) == Elems(DictGet(c, "succession_chara_array", <<>>))

\* the effects lists of the skills of a record
SkillEffects(c) ==
    {s["effects"] : s \in {x \in Elems(DictGet(c, "skill_array", <<>>)) :
                              HasKey(x, "effects")}}

\* every list of mappings in a record, its parents included
RecordLists(c) ==
    (ListsOf(c) \cup SkillEffects(c)
     \cup UNION {ListsOf(p) \cup SkillEffects(p) : p \in Parents(c)}) \ {<<>>}

\* every mapping in a record: the record and the elements of its lists
RecordDicts(c) == ({c} \cup UNION {Elems(l) : l \in RecordLists(c)}) \ {EmptyDict}

\* C20: an enrich_character call, at any place in a sequence of calls and
\* table reloads, leaves the tables as they were before it, and the record
\* it enriched holds no list or mapping of the tables.
C20_TablesReadOnly ==
    [][runs' # runs =>
          /\ data' = data
          /\ RecordLists(char') \cap TableLists(data') = {}
          /\ RecordDicts(char') \cap TableDicts(data') = {}]_vars

\* C20 witness: a second call has run on a record whose skills took their
\* effects from the skill definitions
C20_Witness ==
    /\ fn = "enrich_character" /\ exc = "" /\ runs = 2
    /\ TableLists(data) # {}
    /\ \E l \in SkillEffects(char) : l # <<>>

-----------------------------------------------------------------------------
(* C21: the records of a batch, in whatever order the input lists them *)

\* the run got as far as the loop over the records
LoopEntered ==
    pc \in {"enrich", "report", "exit"}
    /\ files.input.kind = "array"
    /\ ~load_all_data_raises(files)

\* C21: at the end of a run that entered the loop, every record of the
\* batch, wherever the input lists it, is what enriching that record alone
\* against the same tables gives.
C21_OrderIndependence ==
    (LoopEntered /\ pc = "exit") =>
        \A i \in 1..Len(characters) :
            characters[i] = enrich_character(files.input.records[i], data).char

\* the part of C21 the code keeps: every record the loop has reached is
\* what enriching it alone gives, and the others are as the input has them
C21_ReachedAsAlone ==
    LoopEntered =>
        \A i \in 1..Len(characters) :
            characters[i] = IF i <= runs
                            THEN enrich_character(files.input.records[i], data).char
                            ELSE files.input.records[i]

-----------------------------------------------------------------------------
(* C22, C27: the parents nested in a record, on the first call *)

\* a trait-info entry after the trait-level enrichment: every field kept,
\* the name added when the id resolves, the stars when id mod 100 is 1..3
TraitEntryEnriched(old, new, d) ==
    LET id == IF HasKey(old, "factor_id") THEN old["factor_id"] ELSE 0
        name == get_spark_name(d, id)
        added == (IF Truthy(name) THEN {"spark_name_en"} ELSE {})
                 \cup (IF id % 100 \in 1..3 THEN {"stars"} ELSE {})
    IN  IF id = 0 THEN new = old
        ELSE /\ DOMAIN new = DOMAIN old \cup added
             /\ \A k \in DOMAIN old \ added : new[k] = old[k]
             /\ "spark_name_en" \in added => new["spark_name_en"] = name
             /\ "stars" \in added => new["stars"] = id % 100

\* a parent after the character-level and trait-level enrichment and
\* nothing else: the name fields of its card_id, its trait-info entries
\* enriched, every other field (skills, support cards, its own parents) as
\* it was
ParentEnriched(old, new, d) ==
    LET card_id == IF HasKey(old, "card_id") THEN old["card_id"] ELSE 0
        info == IF card_id = 0 THEN EmptyDict ELSE get_chara_info(d, card_id)
    IN  /\ DOMAIN new = DOMAIN old \cup DOMAIN info
        /\ \A k \in DOMAIN info : new[k] = info[k]
        /\ \A k \in DOMAIN old \ (DOMAIN info \cup {"factor_info_array"}) :
               new[k] = old[k]
        /\ HasKey(old, "factor_info_array") =>
               /\ Len(new["factor_info_array"]) = Len(old["factor_info_array"])
               /\ \A i \in 1..Len(old["factor_info_array"]) :
                      TraitEntryEnriched(old["factor_info_array"][i],
                                         new["factor_info_array"][i], d)

\* the first call on a record with parents returned
FirstCallWithParents ==
    /\ fn = "enrich_character" /\ runs = 1 /\ exc = ""
    /\ HasKey(before, "succession_chara_array")

\* C22: every parent nested directly in the record gets the character-level
\* enrichment (the name fields of its card_id) and the trait-level
\* enrichment (name and stars of each trait-info entry), no skill or
\* support-card field, and nothing changes in what is nested deeper.
C22_ParentsEnriched ==
    FirstCallWithParents =>
        /\ Len(char["succession_chara_array"]) = Len(before["succession_chara_array"])
        /\ \A i \in 1..Len(before["succession_chara_array"]) :
               ParentEnriched(before["succession_chara_array"][i],
                              char["succession_chara_array"][i], usedData[1])

\* C27: a parent without a present, non-zero card_id is left as it was,
\* whether or not its trait ids resolve; a parent with one is enriched on
\* both levels.
C27_GatedOnCardId ==
    FirstCallWithParents =>
        /\ Len(char["succession_chara_array"]) = Len(before["succession_chara_array"])
        /\ \A i \in 1..Len(before["succession_chara_array"]) :
               LET old == before["succession_chara_array"][i]
                   new == char["succession_chara_array"][i]
               IN  IF HasKey(old, "card_id") /\ old["card_id"] # 0
                   THEN ParentEnriched(old, new, usedData[1])
                   ELSE new = old

\* C27 witness: a parent without card_id (absent or 0) whose trait id
\* resolves in the tables used was left as it was
C27_Witness ==
    /\ FirstCallWithParents
    /\ \E i \in 1..Len(before["succession_chara_array"]) :
           LET old == before["succession_chara_array"][i]
           IN  /\ ~HasKey(old, "card_id") \/ old["card_id"] = 0
               /\ HasKey(old, "factor_info_array")
               /\ \E j \in 1..Len(old["factor_info_array"]) :
                      /\ HasKey(old["factor_info_array"][j], "factor_id")
                      /\ Truthy(get_spark_name(usedData[1],
                                               old["factor_info_array"][j]["factor_id"]))
               /\ char["succession_chara_array"][i] = old

-----------------------------------------------------------------------------
(* C23: get_support_card_info, checked under SpecLookup *)

\* the leading decimal digit of a natural number
RECURSIVE LeadingDigit(_)
LeadingDigit(n) == IF n < 10 THEN n ELSE LeadingDigit(n \div 10)

CategoryLabels == <<"Speed", "Stamina", "Power", "Guts", "Wit", "Friend", "Group">>

\* the result field taken from each field of a table entry
CardNameFields ==
    [name |-> "support_card_name_en", title |-> "support_card_title_en",
     chara |-> "support_card_chara_en"]

\* C23: get_support_card_info sets support_card_type to the label of the
\* id's leading digit exactly when the digit is 1..7, whether or not the
\* table has the id, and adds each of the name, title and character fields
\* exactly when the table entry of the id has it.
C23_SupportCardInfo ==
    fn = "get_support_card_info" =>
        LET cards == IF HasKey(data, "supportcardnames")
                     THEN data["supportcardnames"] ELSE EmptyDict
            entry == IF HasKey(cards, Str(arg)) THEN cards[Str(arg)] ELSE EmptyDict
            lead == LeadingDigit(arg)
        IN  /\ HasKey(ret, "support_card_type") <=> lead \in 1..7
            /\ lead \in 1..7 => ret["support_card_type"] = <<CategoryLabels[lead]>>
            /\ \A f \in DOMAIN CardNameFields :
                   /\ HasKey(ret, CardNameFields[f]) <=> HasKey(entry, f)
                   /\ HasKey(entry, f) => ret[CardNameFields[f]] = entry[f]
            /\ DOMAIN ret \subseteq
                   {"support_card_type"} \cup {CardNameFields[f] : f \in DOMAIN CardNameFields}

\* C23 witness: a card the loaded table does not hold got its category, and
\* nothing else, from its leading digit
C23_Witness ==
    /\ fn = "get_support_card_info"
    /\ arg = 70004
    /\ HasKey(data, "supportcardnames") /\ data["supportcardnames"] # EmptyDict
    /\ ret = [support_card_type |-> <<"Group">>]

-----------------------------------------------------------------------------
(* C24: the skill tier of get_spark_name, checked under SpecSpark *)

\* C24: when a candidate of the group has rarity 1 but the Skill Name of
\* the first such candidate does not resolve, the skill tier yields no name:
\* no other candidate of the group is returned, and the result is what the
\* race and generic tiers give.
C24_SingleShot ==
    (fn = "get_spark_name" /\ InSkillRange(arg)) =>
        LET group_base == (arg \div 100) * 10
            skill_data == DictGet(data, "skill_data", EmptyDict)
            W == {digit \in 1..9 : RarityOf(skill_data, group_base + digit) = 1}
        IN  (W # {} /\ ~Truthy(get_skill_name(data, group_base + Min(W)))) =>
                ret = IF Truthy(RaceSparkTier(data, arg))
                      THEN RaceSparkTier(data, arg)
                      ELSE GenericSparkTier(data, arg)

-----------------------------------------------------------------------------
(* C25: rarity label and classification of get_skill_details, checked      *)
(* under SpecLookup                                                        *)

SkillTypes ==
    {<<"green">>, <<"blue">>, <<"unique">>, <<"inherited">>, <<"gold">>, <<"white">>}

\* C25: a returned result labels rarity 1-3 "White", 4-5 "Gold" and 6
\* "Unique"; it holds skill_type exactly when the definition has an
\* alternative, and then skill_type is the get_skill_type result of the
\* first alternative's effects when that is resolved, else "gold" for rarity
\* 4-5, "unique" for rarity 6 and "white" for any other rarity: always one
\* of the six classes.
C25_RarityAndFallback ==
    (fn = "get_skill_details" /\ exc = "" /\ ret # EmptyDict) =>
        LET skill_entry == SkillEntry(data, arg)
            rarity == DictGet(skill_entry, "rarity", 0)
            alternatives == DictGet(skill_entry, "alternatives", <<>>)
            resolved == get_skill_type(arg, DictGet(alternatives[1], "effects", <<>>))
        IN  /\ rarity \in {1, 2, 3} => ret["rarity"] = <<"White">>
            /\ rarity \in {4, 5} => ret["rarity"] = <<"Gold">>
            /\ rarity = 6 => ret["rarity"] = <<"Unique">>
            /\ HasKey(ret, "skill_type") <=> Len(alternatives) > 0
            /\ Len(alternatives) > 0 =>
                   /\ ret["skill_type"] \in SkillTypes
                   /\ ret["skill_type"] =
                          IF resolved # None THEN resolved
                          ELSE IF rarity \in {4, 5} THEN <<"gold">>
                          ELSE IF rarity = 6 THEN <<"unique">>
                          ELSE <<"white">>

\* a Gold definition left unresolved by get_skill_type got "gold"
C25_Witness ==
    /\ fn = "get_skill_details" /\ exc = "" /\ ret # EmptyDict
    /\ DictGet(SkillEntry(data, arg), "rarity", 0) = 5
    /\ HasKey(ret, "skill_type")
    /\ ret["skill_type"] = <<"gold">>
    /\ ret["rarity"] = <<"Gold">>

-----------------------------------------------------------------------------
(* C26: the enriched arrays against their source arrays, checked under Spec *)

\* the source array under key src of the record c, empty when absent
SourceIds(c, src) == IF HasKey(c, src) THEN c[src] ELSE <<>>

\* the array under key enr has one entry per id of the source, in order,
\* each holding the id under idKey; with no id there is no such array
AlignedWith(old, new, src, enr, idKey) ==
    LET ids == SourceIds(old, src)
    IN  IF Len(ids) = 0 THEN ~HasKey(new, enr)
        ELSE /\ HasKey(new, enr)
             /\ Len(new[enr]) = Len(ids)
             /\ \A i \in 1..Len(ids) :
                    /\ HasKey(new[enr][i], idKey)
                    /\ new[enr][i][idKey] = ids[i]

\* C26: after a run that returned, spark_array_enriched,
\* win_saddle_array_enriched and nickname_array_enriched have exactly one
\* entry per element of factor_id_array, win_saddle_id_array and
\* nickname_id_array, in the same order and carrying the original id,
\* whether or not the name resolved; each is absent exactly when its source
\* is absent or empty.
C26_EnrichedArraysAligned ==
    (fn = "enrich_character" /\ exc = "") =>
        /\ AlignedWith(before, char, "factor_id_array", "spark_array_enriched", "spark_id")
        /\ AlignedWith(before, char, "win_saddle_id_array",
                       "win_saddle_array_enriched", "saddle_id")
        /\ AlignedWith(before, char, "nickname_id_array",
                       "nickname_array_enriched", "nickname_id")

\* a run kept the entries of a win and of a nickname whose names did not
\* resolve, next to entries whose names did
C26_Witness ==
    /\ fn = "enrich_character" /\ exc = ""
    /\ HasKey(char, "win_saddle_array_enriched")
    /\ HasKey(char, "nickname_array_enriched")
    /\ \E i, j \in 1..Len(char["win_saddle_array_enriched"]) :
           /\ HasKey(char["win_saddle_array_enriched"][i], "race_name_en")
           /\ ~HasKey(char["win_saddle_array_enriched"][j], "race_name_en")
    /\ \E i \in 1..Len(char["nickname_array_enriched"]) :
           ~HasKey(char["nickname_array_enriched"][i], "nickname_name_en")

-----------------------------------------------------------------------------
(* C28: the skill id decoded from a unique-skill trait, checked under      *)
(* SpecSpark                                                               *)

\* C28: for a trait id in [10000000, 20000000) the decimal form has 8
\* digits, the character index is in 0..999, and the skill id looked up is
\* in 110001..111000 when the variant digit is 2 and in 100001..101000
\* otherwise: a 6-digit id starting "11" resp. "10", which is the id the
\* unique-skill tier hands to get_skill_name.
C28_UniqueIdsInNamespace ==
    (fn = "get_spark_name" /\ InUniqueRange(arg)) =>
        LET spark_str == Str(arg)
            middle == (arg \div 1000) % 1000
            variant == (arg \div 100) % 10
            skill_id == UniqueSkillId(arg)
        IN  /\ Len(spark_str) = 8
            /\ ParseInt(SubSeq(spark_str, 3, 5)) = middle
            /\ middle \in 0..999
            /\ skill_id - middle \in {100001, 110001}
            /\ variant = 2 => skill_id \in 110001..111000
            /\ variant # 2 => skill_id \in 100001..101000
            /\ Len(Str(skill_id)) = 6
            /\ StartsWith(Str(skill_id), IF variant = 2 THEN <<"1", "1">> ELSE <<"1", "0">>)
            /\ UniqueSparkTier(data, arg) = get_skill_name(data, skill_id)

\* the largest character index of the alternate outfit was looked up under
\* 111000
C28_Witness ==
    /\ fn = "get_spark_name" /\ arg = 10999201
    /\ UniqueSkillId(arg) = 111000

-----------------------------------------------------------------------------
(* apply_corrections of generate_data.py.  str.replace works on characters, *)
(* so a name is a sequence of one-character strings here; "(o)", "(oo)"    *)
(* and "(x)" stand for the single characters U+25CB, U+25CE and U+00D7.   *)

\* the corrections in the order of the dict literal: <<wrong, right>>
SPARK_NAME_CORRECTIONS ==
    << <<<<"R", "u", "n", "n", "e", "r">>,
         <<"F", "r", "o", "n", "t", " ", "R", "u", "n", "n", "e", "r">>>>,
       <<<<"L", "e", "a", "d", "e", "r">>,
         <<"P", "a", "c", "e", " ", "C", "h", "a", "s", "e", "r">>>>,
       <<<<"B", "e", "t", "w", "e", "e", "n", "e", "r">>,
         <<"L", "a", "t", "e", " ", "S", "u", "r", "g", "e", "r">>>>,
       <<<<"C", "h", "a", "s", "e", "r">>,
         <<"E", "n", "d", " ", "C", "l", "o", "s", "e", "r">>>>,
       <<<<"B", "a", "d", " ", "T", "r", "a", "c", "k", " ", "C", "o", "n", "d", "i", "t", "i", "o", "n", " ", "(o)">>,
         <<"W", "e", "t", " ", "C", "o", "n", "d", "i", "t", "i", "o", "n", "s", " ", "(o)">>>>,
       <<<<"B", "a", "d", " ", "T", "r", "a", "c", "k", " ", "C", "o", "n", "d", "i", "t", "i", "o", "n", " ", "(oo)">>,
         <<"W", "e", "t", " ", "C", "o", "n", "d", "i", "t", "i", "o", "n", "s", " ", "(oo)">>>>,
       <<<<"B", "a", "d", " ", "T", "r", "a", "c", "k", " ", "C", "o", "n", "d", "i", "t", "i", "o", "n", " ", "(x)">>,
         <<"W", "e", "t", " ", "C", "o", "n", "d", "i", "t", "i", "o", "n", "s", " ", "(x)">>>>,
       <<<<"F", "r", "o", "n", "t", "r", "u", "n", "n", "e", "r">>,
         <<"E", "a", "r", "l", "y", " ", "L", "e", "a", "d">>>>,
       <<<<"R", "u", "n", "n", "e", "r", "'", "s", " ", "C", "o", "r", "n", "e", "r", "s", " ", "(o)">>,
         <<"F", "r", "o", "n", "t", " ", "R", "u", "n", "n", "e", "r", " ", "C", "o", "r", "n", "e", "r", "s", " ", "(o)">>>>,
       <<<<"R", "u", "n", "n", "e", "r", "'", "s", " ", "C", "o", "r", "n", "e", "r", "s", " ", "(oo)">>,
         <<"F", "r", "o", "n", "t", " ", "R", "u", "n", "n", "e", "r", " ", "C", "o", "r", "n", "e", "r", "s", " ", "(oo)">>>>,
       <<<<"R", "u", "n", "n", "e", "r", "'", "s", " ", "S", "t", "r", "a", "i", "g", "h", "t", "s", " ", "(o)">>,
         <<"F", "r", "o", "n", "t", " ", "R", "u", "n", "n", "e", "r", " ", "S", "t", "r", "a", "i", "g", "h", "t", "a", "w", "a", "y", "s", " ", "(o)">>>>,
       <<<<"R", "u", "n", "n", "e", "r", "'", "s", " ", "S", "t", "r", "a", "i", "g", "h", "t", "s", " ", "(oo)">>,
         <<"F", "r", "o", "n", "t", " ", "R", "u", "n", "n", "e", "r", " ", "S", "t", "r", "a", "i", "g", "h", "t", "a", "w", "a", "y", "s", " ", "(oo)">>>>,
       <<<<"R", "u", "n", "n", "e", "r", "'", "s", " ", "T", "r", "i", "c", "k", "s", " ", "(o)">>,
         <<"F", "r", "o", "n", "t", " ", "R", "u", "n", "n", "e", "r", " ", "S", "a", "v", "v", "y", " ", "(o)">>>>,
       <<<<"R", "u", "n", "n", "e", "r", "'", "s", " ", "T", "r", "i", "c", "k", "s", " ", "(oo)">>,
         <<"F", "r", "o", "n", "t", " ", "R", "u", "n", "n", "e", "r", " ", "S", "a", "v", "v", "y", " ", "(oo)">>>>,
       <<<<"L", "e", "a", "d", "e", "r", "'", "s", " ", "C", "o", "r", "n", "e", "r", "s", " ", "(o)">>,
         <<"P", "a", "c", "e", " ", "C", "h", "a", "s", "e", "r", " ", "C", "o", "r", "n", "e", "r", "s", " ", "(o)">>>>,
       <<<<"L", "e", "a", "d", "e", "r", "'", "s", " ", "C", "o", "r", "n", "e", "r", "s", " ", "(oo)">>,
         <<"P", "a", "c", "e", " ", "C", "h", "a", "s", "e", "r", " ", "C", "o", "r", "n", "e", "r", "s", " ", "(oo)">>>>,
       <<<<"L", "e", "a", "d", "e", "r", "'", "s", " ", "S", "t", "r", "a", "i", "g", "h", "t", "s", " ", "(o)">>,
         <<"P", "a", "c", "e", " ", "C", "h", "a", "s", "e", "r", " ", "S", "t", "r", "a", "i", "g", "h", "t", "a", "w", "a", "y", "s", " ", "(o)">>>>,
       <<<<"L", "e", "a", "d", "e", "r", "'", "s", " ", "S", "t", "r", "a", "i", "g", "h", "t", "s", " ", "(oo)">>,
         <<"P", "a", "c", "e", " ", "C", "h", "a", "s", "e", "r", " ", "S", "t", "r", "a", "i", "g", "h", "t", "a", "w", "a", "y", "s", " ", "(oo)">>>>,
       <<<<"L", "e", "a", "d", "e", "r", "'", "s", " ", "T", "r", "i", "c", "k", "s", " ", "(o)">>,
         <<"P", "a", "c", "e", " ", "C", "h", "a", "s", "e", "r", " ", "S", "a", "v", "v", "y", " ", "(o)">>>>,
       <<<<"L", "e", "a", "d", "e", "r", "'", "s", " ", "T", "r", "i", "c", "k", "s", " ", "(oo)">>,
         <<"P", "a", "c", "e", " ", "C", "h", "a", "s", "e", "r", " ", "S", "a", "v", "v", "y", " ", "(oo)">>>>,
       <<<<"B", "e", "t", "w", "e", "e", "n", "e", "r", "'", "s", " ", "C", "o", "r", "n", "e", "r", "s", " ", "(o)">>,
         <<"L", "a", "t", "e", " ", "S", "u", "r", "g", "e", "r", " ", "C", "o", "r", "n", "e", "r", "s", " ", "(o)">>>>,
       <<<<"B", "e", "t", "w", "e", "e", "n", "e", "r", "'", "s", " ", "C", "o", "r", "n", "e", "r", "s", " ", "(oo)">>,
         <<"L", "a", "t", "e", " ", "S", "u", "r", "g", "e", "r", " ", "C", "o", "r", "n", "e", "r", "s", " ", "(oo)">>>>,
       <<<<"B", "e", "t", "w", "e", "e", "n", "e", "r", "'", "s", " ", "S", "t", "r", "a", "i", "g", "h", "t", "s", " ", "(o)">>,
         <<"L", "a", "t", "e", " ", "S", "u", "r", "g", "e", "r", " ", "S", "t", "r", "a", "i", "g", "h", "t", "a", "w", "a", "y", "s", " ", "(o)">>>>,
       <<<<"B", "e", "t", "w", "e", "e", "n", "e", "r", "'", "s", " ", "S", "t", "r", "a", "i", "g", "h", "t", "s", " ", "(oo)">>,
         <<"L", "a", "t", "e", " ", "S", "u", "r", "g", "e", "r", " ", "S", "t", "r", "a", "i", "g", "h", "t", "a", "w", "a", "y", "s", " ", "(oo)">>>>,
       <<<<"B", "e", "t", "w", "e", "e", "n", "e", "r", "'", "s", " ", "T", "r", "i", "c", "k", "s", " ", "(o)">>,
         <<"L", "a", "t", "e", " ", "S", "u", "r", "g", "e", "r", " ", "S", "a", "v", "v", "y", " ", "(o)">>>>,
       <<<<"B", "e", "t", "w", "e", "e", "n", "e", "r", "'", "s", " ", "T", "r", "i", "c", "k", "s", " ", "(oo)">>,
         <<"L", "a", "t", "e", " ", "S", "u", "r", "g", "e", "r", " ", "S", "a", "v", "v", "y", " ", "(oo)">>>>,
       <<<<"C", "h", "a", "s", "e", "r", "'", "s", " ", "C", "o", "r", "n", "e", "r", "s", " ", "(o)">>,
         <<"E", "n", "d", " ", "C", "l", "o", "s", "e", "r", " ", "C", "o", "r", "n", "e", "r", "s", " ", "(o)">>>>,
       <<<<"C", "h", "a", "s", "e", "r", "'", "s", " ", "C", "o", "r", "n", "e", "r", "s", " ", "(oo)">>,
         <<"E", "n", "d", " ", "C", "l", "o", "s", "e", "r", " ", "C", "o", "r", "n", "e", "r", "s", " ", "(oo)">>>>,
       <<<<"C", "h", "a", "s", "e", "r", "'", "s", " ", "S", "t", "r", "a", "i", "g", "h", "t", "s", " ", "(o)">>,
         <<"E", "n", "d", " ", "C", "l", "o", "s", "e", "r", " ", "S", "t", "r", "a", "i", "g", "h", "t", "a", "w", "a", "y", "s", " ", "(o)">>>>,
       <<<<"C", "h", "a", "s", "e", "r", "'", "s", " ", "S", "t", "r", "a", "i", "g", "h", "t", "s", " ", "(oo)">>,
         <<"E", "n", "d", " ", "C", "l", "o", "s", "e", "r", " ", "S", "t", "r", "a", "i", "g", "h", "t", "a", "w", "a", "y", "s", " ", "(oo)">>>>,
       <<<<"C", "h", "a", "s", "e", "r", "'", "s", " ", "T", "r", "i", "c", "k", "s", " ", "(o)">>,
         <<"E", "n", "d", " ", "C", "l", "o", "s", "e", "r", " ", "S", "a", "v", "v", "y", " ", "(o)">>>>,
       <<<<"C", "h", "a", "s", "e", "r", "'", "s", " ", "T", "r", "i", "c", "k", "s", " ", "(oo)">>,
         <<"E", "n", "d", " ", "C", "l", "o", "s", "e", "r", " ", "S", "a", "v", "v", "y", " ", "(oo)">>>>,
       <<<<"F", "r", "a", "n", "t", "i", "c", " ", "R", "u", "n", "n", "e", "r", "s">>,
         <<"F", "r", "e", "n", "z", "i", "e", "d", " ", "F", "r", "o", "n", "t", " ", "R", "u", "n", "n", "e", "r", "s">>>>,
       <<<<"R", "e", "s", "t", "r", "a", "i", "n", "e", "d", " ", "R", "u", "n", "n", "e", "r", "s">>,
         <<"S", "u", "b", "d", "u", "e", "d", " ", "F", "r", "o", "n", "t", " ", "R", "u", "n", "n", "e", "r", "s">>>>,
       <<<<"P", "a", "n", "i", "c", "k", "e", "d", " ", "R", "u", "n", "n", "e", "r", "s">>,
         <<"F", "l", "u", "s", "t", "e", "r", "e", "d", " ", "F", "r", "o", "n", "t", " ", "R", "u", "n", "n", "e", "r", "s">>>>,
       <<<<"F", "a", "l", "t", "e", "r", "i", "n", "g", " ", "R", "u", "n", "n", "e", "r", "s">>,
         <<"H", "e", "s", "i", "t", "a", "n", "t", " ", "F", "r", "o", "n", "t", " ", "R", "u", "n", "n", "e", "r", "s">>>>,
       <<<<"F", "r", "a", "n", "t", "i", "c", " ", "L", "e", "a", "d", "e", "r", "s">>,
         <<"F", "r", "e", "n", "z", "i", "e", "d", " ", "P", "a", "c", "e", " ", "C", "h", "a", "s", "e", "r", "s">>>>,
       <<<<"R", "e", "s", "t", "r", "a", "i", "n", "e", "d", " ", "L", "e", "a", "d", "e", "r", "s">>,
         <<"S", "u", "b", "d", "u", "e", "d", " ", "P", "a", "c", "e", " ", "C", "h", "a", "s", "e", "r", "s">>>>,
       <<<<"P", "a", "n", "i", "c", "k", "e", "d", " ", "L", "e", "a", "d", "e", "r", "s">>,
         <<"F", "l", "u", "s", "t", "e", "r", "e", "d", " ", "P", "a", "c", "e", " ", "C", "h", "a", "s", "e", "r", "s">>>>,
       <<<<"F", "a", "l", "t", "e", "r", "i", "n", "g", " ", "L", "e", "a", "d", "e", "r", "s">>,
         <<"H", "e", "s", "i", "t", "a", "n", "t", " ", "P", "a", "c", "e", " ", "C", "h", "a", "s", "e", "r", "s">>>>,
       <<<<"F", "r", "a", "n", "t", "i", "c", " ", "B", "e", "t", "w", "e", "e", "n", "e", "r", "s">>,
         <<"F", "r", "e", "n", "z", "i", "e", "d", " ", "L", "a", "t", "e", " ", "S", "u", "r", "g", "e", "r", "s">>>>,
       <<<<"R", "e", "s", "t", "r", "a", "i", "n", "e", "d", " ", "B", "e", "t", "w", "e", "e", "n", "e", "r", "s">>,
         <<"S", "u", "b", "d", "u", "e", "d", " ", "L", "a", "t", "e", " ", "S", "u", "r", "g", "e", "r", "s">>>>,
       <<<<"P", "a", "n", "i", "c", "k", "e", "d", " ", "B", "e", "t", "w", "e", "e", "n", "e", "r", "s">>,
         <<"F", "l", "u", "s", "t", "e", "r", "e", "d", " ", "L", "a", "t", "e", " ", "S", "u", "r", "g", "e", "r", "s">>>>,
       <<<<"F", "a", "l", "t", "e", "r", "i", "n", "g", " ", "B", "e", "t", "w", "e", "e", "n", "e", "r", "s">>,
         <<"H", "e", "s", "i", "t", "a", "n", "t", " ", "L", "a", "t", "e", " ", "S", "u", "r", "g", "e", "r", "s">>>>,
       <<<<"F", "r", "a", "n", "t", "i", "c", " ", "C", "h", "a", "s", "e", "r", "s">>,
         <<"F", "r", "e", "n", "z", "i", "e", "d", " ", "E", "n", "d", " ", "C", "l", "o", "s", "e", "r", "s">>>>,
       <<<<"R", "e", "s", "t", "r", "a", "i", "n", "e", "d", " ", "C", "h", "a", "s", "e", "r", "s">>,
         <<"S", "u", "b", "d", "u", "e", "d", " ", "E", "n", "d", " ", "C", "l", "o", "s", "e", "r", "s">>>>,
       <<<<"P", "a", "n", "i", "c", "k", "e", "d", " ", "C", "h", "a", "s", "e", "r", "s">>,
         <<"F", "l", "u", "s", "t", "e", "r", "e", "d", " ", "E", "n", "d", " ", "C", "l", "o", "s", "e", "r", "s">>>>,
       <<<<"F", "a", "l", "t", "e", "r", "i", "n", "g", " ", "C", "h", "a", "s", "e", "r", "s">>,
         <<"H", "e", "s", "i", "t", "a", "n", "t", " ", "E", "n", "d", " ", "C", "l", "o", "s", "e", "r", "s">>>>,
       <<<<"P", "o", "s", "i", "t", "i", "o", "n", " ", "S", "w", "i", "p", "e", "r">>,
         <<"P", "o", "s", "i", "t", "i", "o", "n", " ", "P", "i", "l", "f", "e", "r">>>>,
       <<<<"1", "0", "0", "K", " ", "H", "o", "r", "s", "e", "p", "o", "w", "e", "r">>,
         <<"1", ",", "5", "0", "0", ",", "0", "0", "0", " ", "C", "C">>>>,
       <<<<"1", "M", " ", "H", "o", "r", "s", "e", "p", "o", "w", "e", "r">>,
         <<"1", "5", ",", "0", "0", "0", ",", "0", "0", "0", " ", "C", "C">>>>,
       <<<<"B", "l", "u", "e", " ", "R", "o", "s", "e", " ", "C", "h", "a", "s", "e", "r">>,
         <<"B", "l", "u", "e", " ", "R", "o", "s", "e", " ", "C", "l", "o", "s", "e", "r">>>>,
       <<<<"B", "a", "c", "k", "u", "p", " ", "B", "e", "l", "l", "y">>,
         <<"E", "x", "t", "r", "a", " ", "T", "a", "n", "k">>>>,
       <<<<"B", "i", "g", " ", "S", "t", "r", "i", "d", "e", "s">>,
         <<"F", "u", "r", "i", "o", "u", "s", " ", "F", "e", "a", "t">>>>,
       <<<<"A", "u", "t", "u", "m", "n", " ", "G", "i", "r", "l", " ", "(o)">>,
         <<"F", "a", "l", "l", " ", "R", "u", "n", "n", "e", "r", " ", "(o)">>>>,
       <<<<"A", "u", "t", "u", "m", "n", " ", "G", "i", "r", "l", " ", "(oo)">>,
         <<"F", "a", "l", "l", " ", "R", "u", "n", "n", "e", "r", " ", "(oo)">>>>,
       <<<<"A", "u", "t", "u", "m", "n", " ", "G", "i", "r", "l", " ", "(x)">>,
         <<"F", "a", "l", "l", " ", "R", "u", "n", "n", "e", "r", " ", "(x)">>>>,
       <<<<"H", "o", "l", "d", " ", "Y", "o", "u", "r", " ", "T", "a", "i", "l", " ", "H", "i", "g", "h">>,
         <<"T", "a", "i", "l", " ", "H", "e", "l", "d", " ", "H", "i", "g", "h">>>>,
       <<<<"W", "i", "s", "d", "o", "m">>,
         <<"W", "i", "t">>>> >>

NICKNAME_CORRECTIONS ==
    << <<<<"I", "n", "t", " ", "B", "o", "n", "u", "s">>,
         <<"W", "i", "t", " ", "B", "o", "n", "u", "s">>>>,
       <<<<"I", "n", "t", " ", "C", "a", "p", " ", "U", "p">>,
         <<"W", "i", "t", " ", "C", "a", "p", " ", "U", "p">>>> >>

\* wrong in corrected
Contains(s, wrong) ==
    \E i \in 1..(Len(s) - Len(wrong) + 1) : SubSeq(s, i, i + Len(wrong) - 1) = wrong

\* s.replace(wrong, right): the occurrences from left to right, not
\* overlapping (wrong is never empty); rest[i] is the result for s[i..]
Replace(s, wrong, right) ==
    LET rest[i \in 1..(Len(s) + 1)] ==
            IF i > Len(s) THEN <<>>
            ELSE IF i + Len(wrong) - 1 <= Len(s) /\ SubSeq(s, i, i + Len(wrong) - 1) = wrong
            THEN right \o rest[i + Len(wrong)]
            ELSE <<s[i]>> \o rest[i + 1]
    IN  rest[1]

\* one pass of the loop body: if wrong in corrected: corrected = ...
CorrectOnce(corrected, wrong, right) ==
    IF Contains(corrected, wrong) THEN Replace(corrected, wrong, right) ELSE corrected

\* the loop over corrections.items(), rules lo..hi in dict order, each
\* applied to the value the rules before it left.  The range is halved and
\* v is the value of corrected after the first half, computed before the
\* second half starts.
RECURSIVE CorrectWith(_, _, _, _)
CorrectWith(corrected, corrections, lo, hi) ==
    IF lo > hi THEN corrected
    ELSE IF lo = hi
    THEN CorrectOnce(corrected, corrections[lo][1], corrections[lo][2])
    ELSE CHOOSE c \in {CorrectWith(v, corrections, (lo + hi) \div 2 + 1, hi) :
                           v \in {CorrectWith(corrected, corrections, lo, (lo + hi) \div 2)}} :
             TRUE

apply_corrections(name, corrections) ==
    IF name = <<>> THEN name
    ELSE IF \E i \in 1..Len(corrections) : corrections[i][1] = name
    THEN LET i == CHOOSE i \in 1..Len(corrections) : corrections[i][1] = name
         IN  corrections[i][2]
    ELSE CorrectWith(name, corrections, 1, Len(corrections))

\* the corrections maps, by the name of the dict
CorrectionsNamed(k) ==
    IF k = "SPARK_NAME_CORRECTIONS" THEN SPARK_NAME_CORRECTIONS ELSE NICKNAME_CORRECTIONS

\* upstream names: the empty name, names no rule touches, and names that
\* hold a wrong term once, twice, or next to other text
UpstreamNames ==
    { <<>>,
      <<"S", "p", "e", "e", "d">>,
      <<"L", "e", "a", "d", "e", "r", "'", "s", " ", "P", "r", "i", "d", "e">>,
      <<"F", "a", "l", "l", " ", "R", "u", "n", "n", "e", "r", " ", "(o)">>,
      <<"F", "r", "a", "n", "t", "i", "c", " ", "R", "u", "n", "n", "e", "r", "s", "!">>,
      <<"W", "i", "s", "d", "o", "m", " ", "C", "a", "p">>,
      <<"B", "l", "u", "e", " ", "R", "o", "s", "e", " ", "C", "h", "a", "s", "e", "r", " ", "(x)">>,
      <<"I", "n", "t", " ", "B", "o", "n", "u", "s", "+">>,
      <<"R", "u", "n", "n", "e", "r", " ", "R", "u", "n", "n", "e", "r">>,
      <<"S", "t", "a", "m", "i", "n", "a">>,
      <<"B", "e", "t", "w", "e", "e", "n", "e", "r", "'", "s", " ", "L", "u", "c", "k">>,
      <<"C", "h", "a", "s", "e", "r", " ", "C", "h", "a", "s", "e", "r", "!">>,
      <<"L", "u", "c", "k", "y", " ", "S", "e", "v", "e", "n">>,
      <<"W", "i", "s", "d", "o", "m", " ", "&", " ", "W", "i", "s", "d", "o", "m">> }

\* names to correct: the wrong terms, the official terms (a table that was
\* corrected before), and the upstream names
CorrectionInputs ==
    UpstreamNames
    \cup {SPARK_NAME_CORRECTIONS[i][j] : i \in 1..Len(SPARK_NAME_CORRECTIONS), j \in 1..2}
    \cup {NICKNAME_CORRECTIONS[i][j] : i \in 1..Len(NICKNAME_CORRECTIONS), j \in 1..2}

\* apply_corrections(name, corrections), as generate_sparknames,
\* generate_racenames and generate_nicknames call it for each name
ApplyCorrections ==
    \E name \in CorrectionInputs :
    \E k \in {"SPARK_NAME_CORRECTIONS", "NICKNAME_CORRECTIONS"} :
        /\ fn = ""
        /\ fn' = "apply_corrections"
        /\ arg' = [name |-> name, corrections |-> k]
        /\ ret' = apply_corrections(name, CorrectionsNamed(k))
        /\ UNCHANGED <<batch, data, char, before, usedData, runs, exc>>

InitCorrections ==
    /\ NoBatch
    /\ data = EmptyDict
    /\ NoRecord
    /\ fn = "" /\ arg = 0 /\ ret = None

NextCorrections == ApplyCorrections

SpecCorrections == InitCorrections /\ [][NextCorrections]_vars

C29_ExactMatchFirst ==
    fn = "apply_corrections" =>
        LET name == arg.name
            corrections == CorrectionsNamed(arg.corrections)
            exact == {i \in 1..Len(corrections) : corrections[i][1] = name}
            hits == {i \in 1..Len(corrections) : Contains(name, corrections[i][1])}
        IN  /\ \A i \in exact : ret = corrections[i][2]
            /\ (exact = {} /\ hits = {}) => ret = name
            /\ (exact = {} /\ hits # {}) => ret # name

-----------------------------------------------------------------------------
(* run_extractor.py: main finds the extractor, run_extractor asks, launches *)
(* it in the script directory and looks for data.json.  files.data_json is  *)
(* "absent", "stale" (left by an earlier run) or "created" (written by the  *)
(* extractor process of this run).                                         *)

\* what find_umaextractor returned: nothing, or a path with this suffix
ExtractorPaths == {"none", ".exe", ".py", ".txt"}

\* input(...).strip().lower(), or input raising EOFError on a closed stdin
Responses == {"", "y", "yes", "n", "no", "EOFError"}

\* how subprocess.run ends: the process ran to its end (with any return
\* code), or it could not be started
RunOutcomes == {"completed", "FileNotFoundError", "PermissionError", "OSError"}

\* lines 269-292: main up to the call of run_extractor
FindExtractor ==
    /\ pc = "main"
    /\ IF arg.extractor_path = "none"
       THEN pc' = "exit" /\ exit_code' = 1 /\ UNCHANGED fn
       ELSE pc' = "confirm" /\ fn' = "run_extractor" /\ UNCHANGED exit_code
    /\ UNCHANGED <<data, char, before, usedData, runs, exc, arg, ret,
                   files, characters, output>>

\* lines 177-183: the question, skipped with --yes / -y
Confirm ==
    /\ pc = "confirm"
    /\ IF arg.auto_confirm
       THEN pc' = "launch" /\ UNCHANGED <<ret, exc, exit_code>>
       ELSE \E response \in Responses :
                IF response = "EOFError"
                THEN /\ exc' = "EOFError" /\ pc' = "exit" /\ exit_code' = 1
                     /\ UNCHANGED ret
                ELSE IF response # "" /\ response \notin {"y", "yes"}
                THEN ret' = FALSE /\ pc' = "return" /\ UNCHANGED <<exc, exit_code>>
                ELSE pc' = "launch" /\ UNCHANGED <<ret, exc, exit_code>>
    /\ UNCHANGED <<data, char, before, usedData, runs, fn, arg, files,
                   characters, output>>

\* lines 188-266: subprocess.run by suffix; every exception of the call is
\* caught and gives False; an unknown suffix gives False
Launch ==
    /\ pc = "launch"
    /\ IF arg.extractor_path \in {".exe", ".py"}
       THEN \E outcome \in RunOutcomes :
                IF outcome = "completed"
                THEN pc' = "running" /\ UNCHANGED ret
                ELSE ret' = FALSE /\ pc' = "return"
       ELSE ret' = FALSE /\ pc' = "return"
    /\ UNCHANGED <<data, char, before, usedData, runs, exc, fn, arg,
                   files, characters, output, exit_code>>

\* the extractor process, with cwd = SCRIPT_DIR: it writes data.json or
\* not, and ends with a return code that run_extractor does not read
ExtractorRuns ==
    /\ pc = "running"
    /\ \E wrote \in BOOLEAN, returncode \in {0, 1} :
           files' = [data_json |-> IF wrote THEN "created" ELSE files.data_json,
                     returncode |-> returncode]
    /\ pc' = "check"
    /\ UNCHANGED <<data, char, before, usedData, runs, exc, fn, arg, ret,
                   characters, output, exit_code>>

\* lines 206-216 and 244-252: if data_json.exists(): return True
CheckDataJson ==
    /\ pc = "check"
    /\ ret' = (files.data_json # "absent")
    /\ pc' = "return"
    /\ UNCHANGED <<data, char, before, usedData, runs, exc, fn, arg,
                   files, characters, output, exit_code>>

\* lines 295-303: sys.exit(0 if success else 1)
ExitLauncher ==
    /\ pc = "return"
    /\ exit_code' = IF ret THEN 0 ELSE 1
    /\ pc' = "exit"
    /\ UNCHANGED <<data, char, before, usedData, runs, exc, fn, arg, ret,
                   files, characters, output>>

InitExtractor ==
    /\ data = EmptyDict
    /\ NoRecord
    /\ fn = "" /\ ret = None
    /\ arg \in [extractor_path : ExtractorPaths, auto_confirm : BOOLEAN]
    /\ files \in [data_json : {"absent", "stale"}, returncode : {0}]
    /\ characters = <<>>
    /\ pc = "main"
    /\ output = <<>>
    /\ exit_code = 0

NextExtractor ==
    FindExtractor \/ Confirm \/ Launch \/ ExtractorRuns \/ CheckDataJson \/ ExitLauncher

SpecExtractor == InitExtractor /\ [][NextExtractor]_vars

\* run_extractor has returned
Returned == fn = "run_extractor" /\ pc \in {"return", "exit"} /\ exc = ""

\* C30: run_extractor returns True only if the extractor process of this
\* run created data.json, and the launcher ends with status 0 only then.
C30_SuccessOnlyIfCreated ==
    /\ Returned => (ret = TRUE => files.data_json = "created")
    /\ pc = "exit" =>
           (exit_code = 0 => (Returned /\ files.data_json = "created"))

\* what holds: success means a data.json is there after a process that ran
\* to its end, and every other way out gives False and a non-zero status
C30_SuccessIffFileExists ==
    /\ Returned => (ret = TRUE => files.data_json # "absent")
    /\ pc = "exit" => (exit_code = 0 <=> (Returned /\ ret = TRUE))

====
